---- MODULE Spec2Model ----
(***************************************************************************)
(* Resource-lifetime engine of signiq: Resource composition, BasicRealm,   *)
(* EffectRealm, CellRealm and the Blueprint replay trampoline.             *)
(*                                                                         *)
(* Objects live in a heap (a sequence, the index is the identity).  Every  *)
(* call of an async release() is a frame; a frame runs synchronously up to *)
(* its next await; when the awaited promise settles the frame is put on    *)
(* the job queue, and Resume continues the frame at the head of the queue. *)
(* Observer invocations, instantiate and the Blueprint body are  *)
(* synchronous: an action runs them to the end (Run) on a stack of pending *)
(* calls before the next state is committed.                               *)
(***************************************************************************)
EXTENDS Integers, Sequences, FiniteSets, TLC

VARIABLES heap, frames, jobs, log, cells, runs, ambient, body, mode, calls

vars ==
  <<heap, frames, jobs, log, cells, runs, ambient, body, mode, calls>>

\* ---------------------------------------------------------------- bounds
MaxSets == 2
MaxInst == 1
MaxPub == 2
MaxWrites == 1
MaxTimedWrites == 3
MaxLifeSets == 2
MaxLifeInst == 1
MaxStorePub == 2
MaxStoreObs == 2
MaxStoreRel == 2
MaxStoreDrop == 2
MaxStoreSets == 2
ResItems == 2
MaxFailPub == 1
MaxFailObs == 2
MaxFailDrop == 1
MaxPortalInst == 2
MaxAdds == 2
MaxOuter == 2
MaxInner == 2
MaxObserve == 1
MaxOutside == 2
MaxCtxObserve == 2
MaxForkWrites == 1
MaxAgain == 3
MaxFnSets == 3
MaxLinks == 3
MaxEnqueue == 3
MaxLaunch == 1
MaxUnlinks == 2
MaxResCalls == 2

\* ------------------------------------------------------------ data model
NewObj ==
  [kind |-> "noop", items |-> <<>>, a |-> 0, b |-> 0, flag |-> FALSE,
   set |-> {}, val |-> 0, hist |-> <<>>, tag |-> "", run |-> 0, idx |-> 0,
   throws |-> FALSE, ctx |-> 0]

NewFrame(r) ==
  [res |-> r, pc |-> "start", todo |-> <<>>, wait |-> 0, waitset |-> {},
   done |-> FALSE, err |-> <<>>]

\* The outcome of a settled promise: <<>> when it is fulfilled, <<e>> when
\* it is rejected with the error e.  An error thrown by the release() of
\* a user Resource carries the identity of that Resource.
NoError == <<>>

Ev(e, r, v, h) == [e |-> e, r |-> r, v |-> v, h |-> h]

NewCell(v) == [value |-> v, instances |-> <<>>, cellReleasing |-> FALSE]

Rlm(k) ==
  [k |-> k, c |-> 0, adds |-> 0, slow |-> FALSE, timer |-> FALSE,
   vals |-> <<>>, throws |-> FALSE]

At(run, idx, hist) == [run |-> run, idx |-> idx, hist |-> hist]

NoAt == At(0, 0, <<>>)

Tagged(o, at) == [o EXCEPT !.run = at.run, !.idx = at.idx]

\* a pending synchronous call or the rest of one (its continuation)
Task(op) ==
  [op |-> op, x |-> 0, y |-> 0, z |-> 0, v |-> 0, h |-> <<>>, q |-> <<>>,
   rl |-> Rlm("none"), at |-> NoAt, pc |-> "", tmp |-> 0]

St ==
  [heap |-> heap, frames |-> frames, jobs |-> jobs, log |-> log,
   cells |-> cells, runs |-> runs, ctx |-> ambient, exc |-> FALSE,
   ret |-> 0, stack |-> <<>>]

Commit(s) ==
  /\ heap' = s.heap
  /\ frames' = s.frames
  /\ jobs' = s.jobs
  /\ log' = s.log
  /\ cells' = s.cells
  /\ runs' = s.runs
  /\ ambient' = s.ctx

Ret(s, v) == [s EXCEPT !.ret = v]

Alloc(s, o) == [s EXCEPT !.heap = Append(@, o), !.ret = Len(s.heap) + 1]

Emit(s, e) == [s EXCEPT !.log = Append(@, e)]

Push(s, ts) == [s EXCEPT !.stack = ts \o @]

Reverse(q) == [i \in 1..Len(q) |-> q[Len(q) + 1 - i]]

RECURSIVE SetToSeq(_)
SetToSeq(S) ==
  IF S = {} THEN <<>>
  ELSE LET m == CHOOSE x \in S : \A y \in S : x <= y
       IN <<m>> \o SetToSeq(S \ {m})

RemoveFromSeq(q, x) == SelectSeq(q, LAMBDA y : y # x)

\* ------------------------------------------------------------ the calls
\* the rest of a call: operation op on x
Cont(op, x) == [Task(op) EXCEPT !.x = x]

TRelease(r) == Cont("release", r)

TLoop(f) == [Task("loop") EXCEPT !.x = f]

TAwait(f, pc) == [Task("await") EXCEPT !.x = f, !.pc = pc]

TRet(v) == [Task("ret") EXCEPT !.x = v]

TInvoke(ob, v, at) == [Task("invoke") EXCEPT !.x = ob, !.v = v, !.at = at]

TInst(rl, ob, at) == [Task("inst") EXCEPT !.rl = rl, !.x = ob, !.at = at]

\* ------------------------------------------------- promises and frames
\* A release() promise settles: the .then callback registered by
\* CellRealm.modify removes it from instance.releasing.
\* The frames whose awaited promise settles when frame f ends, in the
\* order of their calls.
PromiseAll == {"afterPending", "cellAll", "unlinkA", "unlinkB", "unlinkAll"}

\* Promise.all rejects with the first rejection among its promises.
FirstRejection(s, g, f, e) ==
  /\ s.frames[g].pc \in PromiseAll
  /\ f \in s.frames[g].waitset
  /\ e # NoError
  /\ \A h \in s.frames[g].waitset \ {f} : s.frames[h].err = NoError

Woken(s, f, e) ==
  SetToSeq({g \in 1..Len(s.frames) :
              /\ ~s.frames[g].done
              /\ \/ s.frames[g].wait = f
                 \/ FirstRejection(s, g, f, e)
                 \/ /\ s.frames[g].pc \in PromiseAll \cup {"storeAll", "parAll"}
                    /\ f \in s.frames[g].waitset
                    /\ \A h \in s.frames[g].waitset \ {f} :
                          /\ s.frames[h].done
                          /\ s.frames[g].pc \in PromiseAll =>
                                s.frames[h].err = NoError})

\* The promise of frame f settles with outcome e; a Promise.all that
\* rejects passes the rejection of f on.
Settle(s, f, e) ==
  [s EXCEPT !.frames = [g \in 1..Len(s.frames) |->
                          IF g = f
                          THEN [s.frames[f] EXCEPT !.done = TRUE,
                                                   !.pc = "done",
                                                   !.wait = 0,
                                                   !.waitset = {},
                                                   !.err = e]
                          ELSE IF ~s.frames[g].done
                                  /\ FirstRejection(s, g, f, e)
                               THEN [s.frames[g] EXCEPT !.wait = f]
                               ELSE s.frames[g]],
            !.jobs = @ \o Woken(s, f, e),
            !.heap = [i \in 1..Len(s.heap) |->
                        IF s.heap[i].kind = "cellInst" /\ e = NoError
                        THEN [s.heap[i] EXCEPT !.set = @ \ {f}]
                        ELSE s.heap[i]]]

Finish(s, f) == Settle(s, f, NoError)

\* frame f awaits the promise returned by the call that just ended
DoAwait(s, t) ==
  [s EXCEPT !.frames[t.x].wait = s.ret, !.frames[t.x].pc = t.pc,
            !.jobs = IF s.frames[s.ret].done THEN Append(@, t.x) ELSE @]

\* Variant of DoLoop that starts every release() without awaiting it.
DoLoopNoAwait(s, t) ==
  LET f == t.x
      fr == s.frames[f]
  IN IF fr.todo = <<>>
     THEN Finish(s, f)
     ELSE Push([s EXCEPT !.frames[f].todo = Tail(@)],
               <<TRelease(Head(fr.todo)), TLoop(f)>>)

\* CompositeReleasable.release / Releasable.sequential: a for-await loop
\* over a snapshot taken at the call.
DoLoop(s, t) ==
  LET f == t.x
      fr == s.frames[f]
      r == fr.res
  IN IF fr.todo = <<>>
     THEN IF s.heap[r].kind = "comp"
          THEN Finish([s EXCEPT !.heap[r].items = <<>>], f)
          ELSE Finish(s, f)
     ELSE Push([s EXCEPT !.frames[f].todo = Tail(@)],
               <<TRelease(Head(fr.todo)), TAwait(f, "loop")>>)

\* BasicRealm observation release, the loop over [...resources].
DoBasicLoop(s, t) ==
  LET f == t.x
      fr == s.frames[f]
      o == fr.res
  IN IF fr.todo = <<>>
     THEN IF s.heap[o].set # {}
          THEN [s EXCEPT !.frames[f].pc = "waitAll", !.frames[f].wait = 0,
                         !.jobs = IF s.heap[o].flag THEN Append(@, f) ELSE @]
          ELSE Finish(s, f)
     ELSE LET r == Head(fr.todo)
              s0 == [s EXCEPT !.frames[f].todo = Tail(@)]
          IN IF ~s.heap[r].flag
             THEN Push(s0, <<TRelease(r), TAwait(f, "loop")>>)
             ELSE Push(s0, <<Cont("bloop", f)>>)

\* ------------------------------------------------- BiLinkMap and Store
\* The two maps of a BiLinkMap are two objects: items holds the links
\* <<a, b, link>> in insertion order, set the keys of the outer map.
MapA(s, st) == s.heap[st].b

MapB(s, st) == s.heap[st].val

\* Map.delete(key) on the outer map
DeleteKey(m, side, key) ==
  [m EXCEPT !.items = SelectSeq(@, LAMBDA e : e[side] # key),
            !.set = @ \ {key}]

\* inner.delete(key) on every inner map that is named in the links es
DeleteLinks(m, es) == [m EXCEPT !.items = SelectSeq(@, LAMBDA e : e \notin es)]

LinksOf(m, side, key) == SelectSeq(m.items, LAMBDA e : e[side] = key)

Range(q) == {q[i] : i \in 1..Len(q)}

\* Promise.all over the release() of the links in frames[f].todo; the
\* callbacks run up to their await inside the call.
DoUnlinkLoop(s, t) ==
  LET f == t.x
      fr == s.frames[f]
  IN IF fr.todo = <<>>
     THEN LET failed == {h \in fr.waitset : s.frames[h].err # NoError}
              rejects == t.pc \in PromiseAll /\ failed # {}
          IN [s EXCEPT !.frames[f].pc = t.pc,
                       !.frames[f].wait =
                          IF rejects
                          THEN CHOOSE h \in failed : \A g \in failed : h <= g
                          ELSE @,
                       !.jobs = IF rejects
                                   \/ \A h \in fr.waitset : s.frames[h].done
                                THEN Append(@, f)
                                ELSE @]
     ELSE Push([s EXCEPT !.frames[f].todo = Tail(@)],
               <<TRelease(Head(fr.todo)[3]),
                       [Task("unlinkadd") EXCEPT !.x = f, !.pc = t.pc]>>)

DoUnlinkAdd(s, t) ==
  Push([s EXCEPT !.frames[t.x].waitset = @ \cup {s.ret}],
       <<[Task("unlinkloop") EXCEPT !.x = t.x, !.pc = t.pc]>>)

\* Variant of ValueInfoRelease that removes every entry of an equal value.
ValueInfoReleaseByValue(s, v, f) ==
  LET st == s.heap[v].b
      mA == s.heap[MapA(s, st)]
      es == LinksOf(mA, 1, v)
      s1 == Emit([s EXCEPT !.heap[st].items =
                              SelectSeq(@, LAMBDA w : s.heap[w].val
                                                        # s.heap[v].val)],
                 Ev("valRelease", v, s.heap[v].val, <<>>))
  IN IF v \notin mA.set
     THEN Push([s1 EXCEPT !.frames[f].pc = "tail",
                          !.jobs = Append(@, f)], <<TRet(f)>>)
     ELSE Push([s1 EXCEPT !.heap[MapB(s, st)] = DeleteLinks(@, Range(es)),
                          !.frames[f].todo = es],
               <<[Task("unlinkloop") EXCEPT !.x = f, !.pc = "unlinkA"],
                       TRet(f)>>)

\* ValueInfo.release of Store.create: this.values.delete(v), then
\* bindings.unlinkAllA(v).
ValueInfoRelease(s, v, f) ==
  LET st == s.heap[v].b
      mA == s.heap[MapA(s, st)]
      es == LinksOf(mA, 1, v)
      s1 == Emit([s EXCEPT !.heap[st].items = RemoveFromSeq(@, v)],
                 Ev("valRelease", v, s.heap[v].val, <<>>))
  IN IF v \notin mA.set
     THEN Push([s1 EXCEPT !.frames[f].pc = "tail",
                          !.jobs = Append(@, f)], <<TRet(f)>>)
     ELSE Push([s1 EXCEPT !.heap[MapB(s, st)] = DeleteLinks(@, Range(es)),
                          !.frames[f].todo = es],
               <<[Task("unlinkloop") EXCEPT !.x = f, !.pc = "unlinkA"],
                       TRet(f)>>)

\* release() of the Resource returned by Store.instantiate:
\* this.observers.delete(observer), then bindings.unlinkAllB(observer).
StoreObservationRelease(s, r, f) ==
  LET st == s.heap[r].a
      ob == s.heap[r].b
      mB == s.heap[MapB(s, st)]
      es == LinksOf(mB, 2, ob)
      s1 == Emit([s EXCEPT !.heap[st].hist = RemoveFromSeq(@, ob)],
                 Ev("unregister", ob, 0, <<>>))
  IN IF ob \notin mB.set
     THEN Push([s1 EXCEPT !.frames[f].pc = "tail",
                          !.jobs = Append(@, f)], <<TRet(f)>>)
     ELSE Push([s1 EXCEPT !.heap[MapA(s, st)] = DeleteLinks(@, Range(es)),
                          !.frames[f].todo = es],
               <<[Task("unlinkloop") EXCEPT !.x = f, !.pc = "unlinkB"],
                       TRet(f)>>)

\* bindings.unlinkAll(): the links are collected, both maps are cleared
\* and the links are released together.
BiLinkMapUnlinkAll(s, m, f) ==
  LET st == s.heap[m].a
  IN Push([s EXCEPT !.heap[MapA(s, st)].items = <<>>,
                    !.heap[MapA(s, st)].set = {},
                    !.heap[MapB(s, st)].items = <<>>,
                    !.heap[MapB(s, st)].set = {},
                    !.frames[f].todo = s.heap[MapA(s, st)].items],
          <<[Task("unlinkloop") EXCEPT !.x = f, !.pc = "unlinkAll"], TRet(f)>>)

\* the entries of the pair of e in one index
SamePair(e, x) == x[1] = e[1] /\ x[2] = e[2]

\* inner.set(key, link) in both indices, the inner maps made on demand
BiLinkMapSet(s, st, e) ==
  LET put(m, side) ==
        [m EXCEPT !.items = IF \E i \in 1..Len(@) : SamePair(e, @[i])
                            THEN [i \in 1..Len(@) |->
                                    IF SamePair(e, @[i]) THEN e ELSE @[i]]
                            ELSE Append(@, e),
                  !.set = @ \cup {e[side]}]
  IN [s EXCEPT !.heap[MapA(s, st)] = put(@, 1),
               !.heap[MapB(s, st)] = put(@, 2)]

\* BiLinkMap.link(a, b, link): an existing link of the pair is released
\* and awaited first, then the link is stored in both indices.  The call
\* object holds the map's owner in a and <<a, b, link>> in items.
BiLinkMapLink(s, r, f) ==
  LET o == s.heap[r]
      existing == SelectSeq(s.heap[MapA(s, o.a)].items,
                            LAMBDA x : SamePair(o.items, x))
  IN IF existing = <<>>
     THEN Finish(BiLinkMapSet(s, o.a, o.items), f)
     ELSE Push(s, <<TRelease(existing[1][3]), TAwait(f, "linkSet"), TRet(f)>>)

\* BiLinkMap.unlink(a, b): the link leaves both indices, then it is
\* released
BiLinkMapUnlink(s, r, f) ==
  LET o == s.heap[r]
      es == SelectSeq(s.heap[MapA(s, o.a)].items,
                      LAMBDA x : SamePair(o.items, x))
      drop(m) == [m EXCEPT !.items =
                    SelectSeq(@, LAMBDA x : ~SamePair(o.items, x))]
  IN IF es = <<>>
     THEN Finish(s, f)
     ELSE Push([s EXCEPT !.heap[MapA(s, o.a)] = drop(@),
                         !.heap[MapB(s, o.a)] = drop(@)],
               <<TRelease(es[1][3]), TAwait(f, "tail"), TRet(f)>>)

\* Variant of StoreReleaseOutcome that throws the first error only.
StoreReleaseFirstError(s, f) ==
  LET results == SetToSeq(s.frames[f].waitset)
      rejected == SelectSeq(results, LAMBDA g : s.frames[g].err # NoError)
  IN IF rejected = <<>> THEN NoError ELSE s.frames[rejected[1]].err

\* Store.release, after Promise.allSettled: the rejection reasons in the
\* order of the two calls; one is thrown as it is, two as an aggregate.
StoreReleaseOutcome(s, f) ==
  LET results == SetToSeq(s.frames[f].waitset)
      rejected == SelectSeq(results, LAMBDA g : s.frames[g].err # NoError)
      errors == [i \in 1..Len(rejected) |-> s.frames[rejected[i]].err[1]]
  IN CASE Len(errors) = 0 -> NoError
       [] Len(errors) = 1 -> <<errors[1]>>
       [] OTHER -> <<[id |-> 0, errors |-> errors]>>

\* Variant of StoreRelease without the released flag.
StoreReleaseEveryTime(s, st, f) ==
  Push(Emit(s, Ev("storeRelease", st, 0, <<>>)),
       <<TRelease(s.heap[st].a), Cont("join", f), TRelease(MapA(s, st)),
               Cont("join", f),
         [Task("unlinkloop") EXCEPT !.x = f, !.pc = "storeAll"], TRet(f)>>)

\* Store.release: the source observation and bindings.unlinkAll() are
\* started one after the other and awaited with Promise.allSettled.
StoreRelease(s, st, f) ==
  IF s.heap[st].flag
  THEN Finish(Emit(s, Ev("storeRelease", st, 1, <<>>)), f)
  ELSE Push(Emit([s EXCEPT !.heap[st].flag = TRUE],
                 Ev("storeRelease", st, 0, <<>>)),
            <<TRelease(s.heap[st].a), Cont("join", f),
              TRelease(MapA(s, st)), Cont("join", f),
              [Task("unlinkloop") EXCEPT !.x = f, !.pc = "storeAll"],
                      TRet(f)>>)

\* ---------------------------------------------- TaskQueue, newCellRealm
\* A TaskQueue object holds the queue in items, stopped in flag, launched
\* in val, running in tag and the frame of runningPromise in a (0: null).
\* TaskQueue.run: returns at once when running or stopped; else starts
\* the loop (runningPromise) and awaits it.
TaskQueueRun(s, r, f) ==
  LET q == s.heap[r].a
      s1 == Alloc([s EXCEPT !.heap[q].tag = "running"],
                  [NewObj EXCEPT !.kind = "tqLoop", !.a = q])
  IN IF s.heap[q].tag = "running" \/ s.heap[q].flag
     THEN Finish(s, f)
     ELSE Push(s1, <<TRelease(s1.ret), Cont("setrunning", q), TAwait(f,
             "runTail"),
                     TRet(f)>>)

\* the error of stop(): 'TaskQueue stopped'
Stopped == <<[id |-> 0, errors |-> <<>>]>>

\* item.reject(new Error('TaskQueue stopped')) for every queued item
RejectQueued(s, q) ==
  LET ps == IF s.heap[q].b = 0
            THEN {s.heap[s.heap[q].items[i]].a :
                    i \in 1..Len(s.heap[q].items)}
            ELSE {}
  IN [s EXCEPT !.frames = [g \in 1..Len(@) |->
                             IF g \in ps
                             THEN [@[g] EXCEPT !.done = TRUE, !.pc = "done",
                                               !.err = Stopped]
                             ELSE @[g]]]

\* resolve(result) or reject(err) of the item whose handler call settled
\* with the outcome e (the call is frame h)
SettleItem(s, q, h, e) ==
  IF s.heap[q].b = 0
  THEN Settle(s, s.heap[s.heap[s.frames[h].res].val].a, e)
  ELSE s

\* Variant of DoTqLoop that takes the item enqueued last.
DoTqLoopLatest(s, t) ==
  LET g == t.x
      q == s.heap[s.frames[g].res].a
      items == s.heap[q].items
      s1 == Alloc([s EXCEPT !.heap[q].items = SubSeq(@, 1, Len(@) - 1)],
                  [NewObj EXCEPT !.kind = "tqTask", !.a = q,
                                 !.b = s.heap[q].b,
                                 !.val = items[Len(items)],
                                 !.throws = s.heap[q].b = 0 /\
                                    s.heap[items[Len(items)]].throws])
  IN IF s.heap[q].items = <<>> \/ s.heap[q].flag
     THEN Finish(s, g)
     ELSE Push(s1, <<TRelease(s1.ret), TAwait(g, "tqNext")>>)

\* the while loop of TaskQueue.run: shift an item and await the handler
DoTqLoop(s, t) ==
  LET g == t.x
      q == s.heap[s.frames[g].res].a
      s1 == Alloc([s EXCEPT !.heap[q].items = Tail(@)],
                  [NewObj EXCEPT !.kind = "tqTask", !.a = q,
                                 !.b = s.heap[q].b,
                                 !.val = Head(s.heap[q].items),
                                 !.throws =
                                   /\ s.heap[q].b = 0
                                   /\ s.heap[Head(s.heap[q].items)].throws])
  IN IF s.heap[q].items = <<>> \/ s.heap[q].flag
     THEN Finish(s, g)
     ELSE Push(s1, <<TRelease(s1.ret), TAwait(g, "tqNext")>>)

\* The task the setter of newCellRealm enqueues, applied to the current
\* value: v >= 0 is the direct update to v, -k the function update
\* prev => prev + k.
Update(task, prevValue) == IF task < 0 THEN prevValue - task ELSE task

\* the handler newCellRealm launches: skip when newer tasks are queued
\* or the value is the current one; else release the previous value and
\* then publish the new one.  The handler of a TaskQueue on its own
\* takes time and then returns or throws.
TaskHandler(s, r, f) ==
  LET o == s.heap[r]
      src == o.b
      newValue == Update(o.val, s.heap[src].val)
  IN CASE src = 0 ->
            Emit([s EXCEPT !.frames[f].pc = "running"],
                 Ev("handle", r, s.heap[o.val].val, <<>>))
       [] src # 0 /\ (s.heap[o.a].items # <<>> \/ newValue = s.heap[src].val)
            -> Finish(s, f)
       [] OTHER ->
            Push([s EXCEPT !.heap[r].val = newValue],
                 <<TRelease(s.heap[src].a), TAwait(f, "afterOld"), TRet(f)>>)

\* release of the Resource of TaskQueue.launch: await this.stop()
TaskQueueStop(s, r, f) ==
  LET q == s.heap[r].a
      s1 == [RejectQueued(s, q) EXCEPT !.heap[q].flag = TRUE,
                                       !.heap[q].val = 0,
                                       !.heap[q].items = <<>>]
  IN IF s.heap[q].a # 0
     THEN Push(s1, <<TRet(s.heap[q].a), TAwait(f, "tail"), TRet(f)>>)
     ELSE [s1 EXCEPT !.frames[f].pc = "tail", !.jobs = Append(@, f)]

\* Releasable.parallel: every release() is called, then allSettled
ParallelReleaseInTurn(s, r, f) ==
  Push([s EXCEPT !.frames[f].todo = s.heap[r].items], <<TLoop(f), TRet(f)>>)

\* Releasable.parallel: every release() is started, then
\* Promise.allSettled awaits them all.
ParallelRelease(s, r, f) ==
  Push([s EXCEPT !.frames[f].todo =
                    [i \in 1..Len(s.heap[r].items) |->
                       <<0, 0, s.heap[r].items[i]>>]],
       <<[Task("unlinkloop") EXCEPT !.x = f, !.pc = "parAll"], TRet(f)>>)

\* Variant of EffectAsyncRelease that forgets to set released.
EffectAsyncReleaseNoFlag(s, r, f) ==
  Push(Emit(s, Ev("effRelease", r, 0, <<>>)),
       <<TRelease(s.heap[r].a), TAwait(f, "tail"), TRet(f)>>)

\* The release() of the Resource returned by an asynchronous
\* EffectRealm.instantiate, before a value arrived: released = true, then
\* the computation is released.
EffectAsyncRelease(s, r, f) ==
  Push(Emit([s EXCEPT !.heap[r].flag = TRUE], Ev("effRelease", r, 0, <<>>)),
       <<TRelease(s.heap[r].a), TAwait(f, "tail"), TRet(f)>>)

\* Variant of RestoreContext that always deletes the key.
RestoreContextDelete(s, o) == [s EXCEPT !.heap[o.a].items[o.b] = 0]

\* The Resource of provideContext: the key gets temp again, or is deleted
\* when temp is undefined (0).
RestoreContext(s, o) == [s EXCEPT !.heap[o.a].items[o.b] = o.val]

\* The release() of a Resource supplied by the user either completes or
\* fails with an error of its own.
Outcome(o, r) ==
  IF o.throws THEN <<[id |-> r, errors |-> <<>>]>> ELSE NoError

\* r.release(): allocate the frame and run it up to its first await.
DoRelease(s, t) ==
  LET r == t.x
      f == Len(s.frames) + 1
      o == s.heap[r]
      s0 == Ret([s EXCEPT !.frames = Append(@, NewFrame(r))], f)
  IN CASE o.kind = "noop" -> Finish(s0, f)
       [] o.kind = "leaf" ->
            LET s1 == Emit(IF o.tag = "restore"
                           THEN RestoreContext(s0, o)
                           ELSE s0,
                           Ev("relStart", r, o.val, o.hist))
            IN IF o.flag
               THEN [s1 EXCEPT !.frames[f].pc = "running"]
               ELSE Settle(s1, f, Outcome(o, r))
       [] o.kind = "comp" ->
            Push([s0 EXCEPT !.frames[f].todo = Reverse(o.items)],
                 <<TLoop(f), TRet(f)>>)
       [] o.kind = "seq" ->
            Push([s0 EXCEPT !.frames[f].todo = o.items],
                 <<TLoop(f), TRet(f)>>)
       [] o.kind = "abort" ->
            Finish([s0 EXCEPT !.heap[r].flag = TRUE], f)
       [] o.kind = "effAsync" ->
            IF o.b = 0
            THEN EffectAsyncRelease(s0, r, f)
            ELSE Push([s0 EXCEPT !.frames[f].todo = <<o.b, o.a>>],
                      <<TLoop(f), TRet(f)>>)
       [] o.kind = "cellInst" ->
            IF o.set # {}
            THEN [s0 EXCEPT !.frames[f].waitset = o.set,
                            !.frames[f].pc = "afterPending"]
            ELSE Push(s0, <<TRelease(o.a), TAwait(f, "afterCurrent"),
                            TRet(f)>>)
       [] o.kind = "bchild" ->
            IF o.flag
            THEN Finish(s0, f)
            ELSE Push([s0 EXCEPT !.heap[r].flag = TRUE],
                      <<TRelease(o.a), TAwait(f, "after"), TRet(f)>>)
       [] o.kind = "bobs" ->
            Push(s0, <<TRelease(o.a), TAwait(f, "sub"), TRet(f)>>)
       [] o.kind = "cellRes" ->
            Push([s0 EXCEPT !.cells[o.val].cellReleasing = TRUE,
                            !.frames[f].todo = s.cells[o.val].instances],
                 <<Cont("cellloop", f), TRet(f)>>)
       [] o.kind = "vinfo" -> ValueInfoRelease(s0, r, f)
       [] o.kind = "sreg" -> StoreObservationRelease(s0, r, f)
       [] o.kind = "store" -> StoreRelease(s0, r, f)
       [] o.kind = "map" -> BiLinkMapUnlinkAll(s0, r, f)
       [] o.kind = "tqRun" -> TaskQueueRun(s0, r, f)
       [] o.kind = "tqLoop" -> Push(s0, <<Cont("tqloop", f), TRet(f)>>)
       [] o.kind = "tqTask" -> TaskHandler(s0, r, f)
       [] o.kind = "tqrel" -> TaskQueueStop(s0, r, f)
       [] o.kind = "par" -> ParallelRelease(s0, r, f)
       [] o.kind = "linkCall" -> BiLinkMapLink(s0, r, f)
       [] o.kind = "unlinkCall" -> BiLinkMapUnlink(s0, r, f)
       [] o.kind = "cellTask" ->
            [s0 EXCEPT !.frames[f].pc = "taskStart", !.jobs = Append(@, f)]
       [] OTHER -> Finish(s0, f)

\* The awaited promise of frame f has settled: run f up to its next await.
DoAdvance(s, t) ==
  LET f == t.x
      fr == s.frames[f]
      r == fr.res
      o == s.heap[r]
      s0 == [s EXCEPT !.frames[f].wait = 0, !.frames[f].waitset = {}]
      awaited == IF fr.wait = 0 THEN NoError ELSE s.frames[fr.wait].err
  IN CASE awaited # NoError /\ fr.pc # "tqNext" -> Settle(s0, f, awaited)
       [] fr.pc = "loop" /\ o.kind = "bobs" -> Push(s0, <<Cont("bloop", f)>>)
       [] fr.pc = "loop" -> Push(s0, <<TLoop(f)>>)
       [] fr.pc = "tail" -> Finish(s0, f)
       [] fr.pc = "linkSet" -> Finish(BiLinkMapSet(s0, o.a, o.items), f)
       [] fr.pc = "afterPending" ->
            Push(s0, <<TRelease(o.a), TAwait(f, "afterCurrent")>>)
       [] fr.pc = "afterCurrent" ->
            Finish([s0 EXCEPT !.cells[o.val].instances =
                                 RemoveFromSeq(@, r)], f)
       [] fr.pc = "after" ->
            LET left == s.heap[o.b].set \ {r}
                resolved == left = {} /\ ~s.heap[o.b].flag
                waiting == {g \in 1..Len(s.frames) :
                              /\ s.frames[g].pc = "waitAll"
                              /\ s.frames[g].res = o.b}
            IN Finish([s0 EXCEPT !.heap[r].flag = FALSE,
                                 !.heap[o.b].set = left,
                                 !.heap[o.b].flag =
                                    IF left = {} THEN TRUE ELSE @,
                                 !.jobs = IF resolved
                                          THEN @ \o SetToSeq(waiting)
                                          ELSE @], f)
       [] fr.pc = "sub" ->
            Push([s0 EXCEPT !.frames[f].todo = SetToSeq(s.heap[r].set)],
                 <<Cont("bloop", f)>>)
       [] fr.pc = "waitAll" -> Finish(s0, f)
       [] fr.pc = "unlinkA" ->
            Finish([s0 EXCEPT !.heap[MapA(s, o.b)] = DeleteKey(@, 1, r)], f)
       [] fr.pc = "unlinkB" ->
            Finish([s0 EXCEPT !.heap[MapB(s, o.a)] = DeleteKey(@, 2, o.b)], f)
       [] fr.pc = "storeAll" -> Settle(s0, f, StoreReleaseOutcome(s, f))
       [] fr.pc \in {"unlinkAll", "parAll"} -> Finish(s0, f)
       [] fr.pc = "runTail" ->
            Finish([s0 EXCEPT !.heap[o.a].tag = "", !.heap[o.a].a = 0], f)
       [] fr.pc = "tqNext" ->
            Push(SettleItem(s0, o.a, fr.wait, awaited), <<Cont("tqloop", f)>>)
       [] fr.pc = "afterOld" ->
            Push([s0 EXCEPT !.heap[o.b].val = o.val],
                 <<TInvoke(s.heap[o.b].b, o.val, NoAt),
                   Cont("addto", s.heap[o.b].a), Cont("finish", f)>>)
       [] fr.pc = "taskStart" ->
            Push(s0, <<TRelease(s.heap[o.a].a), TAwait(f, "tail")>>)
       [] fr.pc = "cellAll" ->
            Finish([s0 EXCEPT !.cells[o.val].instances = <<>>], f)
       [] OTHER -> s0

\* CellRealm.release, the loop over this.instances: one task per instance,
\* then await Promise.all(releasePromises).
DoCellLoop(s, t) ==
  LET f == t.x
      fr == s.frames[f]
  IN IF fr.todo = <<>>
     THEN [s EXCEPT !.frames[f].pc = "cellAll",
                    !.jobs = IF fr.waitset = {} THEN Append(@, f) ELSE @]
     ELSE LET s1 == Alloc([s EXCEPT !.frames[f].todo = Tail(@)],
                          [NewObj EXCEPT !.kind = "cellTask",
                                         !.a = Head(fr.todo)])
          IN Push(s1, <<TRelease(s1.ret), Cont("celladd", f)>>)

DoCellAdd(s, t) ==
  Push([s EXCEPT !.frames[t.x].waitset = @ \cup {s.ret}], <<Cont("cellloop",
          t.x)>>)

\* -------------------------------------------------- realms and observers
\* Variant of UseReplays that never answers the first use call from the
\* history.
UseReplaysFromSecond(currentIndex, history) ==
  0 < currentIndex /\ currentIndex < Len(history)

\* currentIndex < history.size: the use call is answered from the history.
UseReplays(currentIndex, history) == currentIndex < Len(history)

\* An error is thrown: the pending synchronous calls are abandoned up to
\* the caller of the action (Step unwinds them).  The error is logged with
\* the function that threw it and the body run that called it.
Throw(s, fn, run) ==
  Emit([s EXCEPT !.exc = TRUE, !.ret = 0], Ev("threw", fn, run, <<>>))

\* getBlueprintGlobalContext, called first by Blueprint.use (through
\* useRealm), Context.useProvider and Context.useConsumer
GetBlueprintGlobalContext(s, fn, run) ==
  IF s.ctx = 0 THEN Throw(s, fn, run) ELSE s

\* Variant of Restore that clears the slot.
RestoreUndefined(s, temp) == [s EXCEPT !.ctx = 0]

\* BLUEPRINT_GLOBAL_CONTEXT = temp
Restore(s, temp) == [s EXCEPT !.ctx = temp]

\* observeCont: a later publication at use-point u starts a fresh
\* observeBlueprint with the history of the use-point plus the value.
ObserveCont(s, u, v) ==
  LET o == s.heap[u]
      run == s.runs + 1
      s1 == Alloc([s EXCEPT !.runs = run],
                  [NewObj EXCEPT !.kind = "comp", !.run = run])
      root == s1.ret
      h == Append(o.hist, v)
  IN Push(Emit([s1 EXCEPT !.ctx = run], Ev("run", u, run, h)),
          <<[Task("body") EXCEPT !.x = run, !.h = h, !.y = root, !.z = o.b,
                  !.v = 1, !.tmp = s.ctx, !.rl = o.items[1]],
            TRet(root)>>)

\* Variant of UseObserver that ignores every publication after the first.
UseObserverOnce(s, u, v) ==
  IF s.heap[u].tag = "none"
  THEN LET s1 == Alloc(s, [NewObj EXCEPT !.kind = "comp"])
       IN [s1 EXCEPT !.heap[u].tag = "DONE",
                     !.heap[u].val = v,
                     !.heap[u].a = s1.ret]
  ELSE Alloc(s, NewObj)

\* The observer of a use-point (part of Blueprint.toRealm/use).
UseObserver(s, u, v) ==
  IF s.heap[u].tag = "none"
  THEN LET s1 == Alloc(s, [NewObj EXCEPT !.kind = "comp"])
       IN [s1 EXCEPT !.heap[u].tag = "DONE",
                     !.heap[u].val = v,
                     !.heap[u].a = s1.ret]
  ELSE ObserveCont(s, u, v)

\* how often the logging observer ob has been invoked
Invocations(s, ob) ==
  Cardinality({j \in 1..Len(s.log) :
                 s.log[j].e = "value" /\ s.log[j].r = ob})

\* the logging observer returns its Resource
DoLeaf(s, t) ==
  Alloc(s, Tagged([NewObj EXCEPT !.kind = "leaf", !.tag = "value",
                                 !.flag = TRUE, !.val = t.v, !.b = t.x],
                  t.at))

\* the value of the next publication: publications are numbered
NextValue(s) ==
  1 + Cardinality({i \in 1..Len(s.heap) : s.heap[i].kind = "vinfo"})

SinkCount(s) ==
  Cardinality({i \in 1..Len(s.heap) : s.heap[i].kind = "sink"})

\* Variant of StoreCreate that walks the live set of observers.
StoreCreateLive(s, st, value) ==
  LET s1 == Alloc(s, [NewObj EXCEPT !.kind = "vinfo", !.val = value,
                                    !.b = st])
      v == s1.ret
      s2 == Emit([s1 EXCEPT !.heap[st].items = Append(@, v)],
                 Ev("publish", st, value, <<>>))
  IN Push(s2, <<[[Task("storeloop") EXCEPT !.x = st, !.y = v,
          !.h = s.heap[st].hist] EXCEPT !.pc = "live"],
                TRet(v)>>)

\* Store.create: the value joins this.values and every observer of a
\* snapshot of this.observers is called and linked.
StoreCreate(s, st, value) ==
  LET s1 == Alloc(s, [NewObj EXCEPT !.kind = "vinfo", !.val = value,
                                    !.b = st])
      v == s1.ret
      s2 == Emit([s1 EXCEPT !.heap[st].items = Append(@, v)],
                 Ev("publish", st, value, <<>>))
  IN Push(s2, <<[Task("storeloop") EXCEPT !.x = st, !.y = v,
          !.h = s.heap[st].hist], TRet(v)>>)

\* [...this.observers].forEach(async o => ...) of Store.create
DoStoreLoop(s, t) ==
  LET rest == IF t.pc = "live"
              THEN SelectSeq(s.heap[t.x].hist,
                             LAMBDA o : o \notin Range(t.q))
              ELSE t.h
  IN IF rest = <<>>
     THEN s
     ELSE Push(s, <<TInvoke(Head(rest), s.heap[t.y].val, NoAt),
                    [Task("link") EXCEPT !.x = t.x, !.y = t.y,
                            !.z = Head(rest)],
                    [[Task("storeloop") EXCEPT !.x = t.x, !.y = t.y,
                            !.h = Tail(rest)] EXCEPT
                       !.pc = t.pc, !.q = Append(t.q, Head(rest))]>>)

\* Variant of DoLink that records the link in aToB only.
DoLinkOneWay(s, t) ==
  LET e == <<t.y, t.z, s.ret>>
  IN [s EXCEPT !.heap[MapA(s, t.x)].items = Append(@, e),
               !.heap[MapA(s, t.x)].set = @ \cup {t.y}]

\* BiLinkMap.link(a, b, link) for a pair that has no link yet: every
\* registration brings its own observer function, so there is none.
DoLink(s, t) ==
  LET e == <<t.y, t.z, s.ret>>
  IN [s EXCEPT !.heap[MapA(s, t.x)].items = Append(@, e),
               !.heap[MapA(s, t.x)].set = @ \cup {t.y},
               !.heap[MapB(s, t.x)].items = Append(@, e),
               !.heap[MapB(s, t.x)].set = @ \cup {t.z}]

\* Store.instantiate: the observer joins this.observers and is called and
\* linked for every value of a snapshot of this.values.
StoreInstantiate(s, t) ==
  LET st == t.rl.c
      live == [i \in 1..Len(s.heap[st].items) |->
                 s.heap[s.heap[st].items[i]].val]
  IN Push(Emit([s EXCEPT !.heap[st].hist = Append(@, t.x)],
               Ev("register", t.x, 0, live)),
          <<[Task("regloop") EXCEPT !.x = st, !.y = t.x,
                  !.h = s.heap[st].items], [Task("reg") EXCEPT !.x = st,
                          !.y = t.x]>>)

\* [...this.values].forEach(async v => ...) of Store.instantiate
DoRegLoop(s, t) ==
  IF t.h = <<>>
  THEN s
  ELSE Push(s, <<TInvoke(t.y, s.heap[Head(t.h)].val, NoAt),
                 [Task("link") EXCEPT !.x = t.x, !.y = Head(t.h), !.z = t.y],
                 [Task("regloop") EXCEPT !.x = t.x, !.y = t.y,
                         !.h = Tail(t.h)]>>)

DoInvoke(s, t) ==
  LET ob == t.x
      o == s.heap[ob]
  IN CASE /\ o.kind = "sink" /\ o.tag = "registrar" /\ Invocations(s, ob) = 0
          /\ SinkCount(s) < MaxStoreObs ->
            LET s1 == Alloc(Emit(s, Ev("value", ob, t.v, <<>>)),
                            [NewObj EXCEPT !.kind = "sink", !.val = o.val])
            IN Push(s1, <<TInst([Rlm("store") EXCEPT !.c = o.val], s1.ret,
                                NoAt),
                          Cont("keep", ob), [Task("leaf") EXCEPT !.x = ob,
                                  !.v = t.v, !.at = t.at]>>)
       [] /\ o.kind = "sink" /\ o.tag = "publisher" /\ Invocations(s, ob) = 0
          /\ NextValue(s) <= MaxStorePub ->
            Push(Emit(s, Ev("value", ob, t.v, <<>>)),
                 <<TInvoke(s.heap[o.val].a, NextValue(s), NoAt),
                   Cont("keep", ob), [Task("leaf") EXCEPT !.x = ob, !.v = t.v,
                           !.at = t.at]>>)
       [] o.kind = "store" -> StoreCreate(s, ob, t.v)
       [] o.kind = "sink" /\ o.tag = "spawner" /\ Invocations(s, ob) = 1 ->
            LET s1 == Alloc(Emit(s, Ev("value", ob, t.v, <<>>)),
                            [NewObj EXCEPT !.kind = "sink"])
            IN Push(s1, <<TInst([Rlm("cell") EXCEPT !.c = o.val], s1.ret,
                                NoAt),
                          Cont("keep", ob), [Task("leaf") EXCEPT !.x = ob,
                                  !.v = t.v, !.at = t.at]>>)
       [] o.kind = "sink" ->
            Alloc(Emit(s, Ev("value", ob, t.v, <<>>)),
                  Tagged([NewObj EXCEPT !.kind = "leaf", !.tag = "value",
                                        !.flag = TRUE, !.val = t.v,
                                        !.b = ob, !.throws = o.throws],
                         t.at))
       [] o.kind = "outer" ->
            Alloc(Emit(s, Ev("fire", ob, t.at.run, t.v)),
                  Tagged([NewObj EXCEPT !.kind = "leaf", !.tag = "result",
                                        !.flag = o.flag, !.hist = t.v,
                                        !.b = ob], t.at))
       [] o.kind = "bobs" ->
            Push(s, <<TInvoke(o.b, t.v, t.at), [Task("wrap") EXCEPT !.x = ob,
                    !.at = t.at]>>)
       \* the observer flatMap passes to the outer Realm:
       \* value => f(value).instantiate(v => create(v)); f(value) is a Realm
       \* driven from outside, create the wrappedObserver of observation o.b
       [] o.kind = "fmap" ->
            Push(s, <<TInst(Rlm("source"), o.b, t.at)>>)
       [] o.kind = "usept" ->
            UseObserver(Emit(s, Ev("call", ob, t.v, <<>>)), ob, t.v)
       [] OTHER -> Alloc(s, NewObj)

\* addResource of BasicRealm.instantiate (called by wrappedObserver)
DoWrap(s, t) ==
  LET s1 == Alloc(s, Tagged([NewObj EXCEPT !.kind = "bchild", !.a = s.ret,
                                           !.b = t.x], t.at))
  IN [s1 EXCEPT !.heap[t.x].set = @ \cup {s1.ret}]

\* The maker of provideContext: temp = getUserCtx()[key], then
\* getUserCtx()[key] = value.  The realm holds the key in c and the value
\* and the map in vals; l is the Resource that will restore temp.
ProvideContext(s, rl, l) ==
  LET map == rl.vals[2]
      temp == s.heap[map].items[rl.c]
  IN Emit([s EXCEPT !.heap[map].items[rl.c] = rl.vals[1]],
          Ev("provide", l, rl.vals[1], <<rl.c, temp>>))

\* EffectRealm.run: the maker runs now; it registers rl.adds cleanups with
\* addReleasable, in the order of their val; the maker of provideContext
\* registers the Resource that restores temp, the maker of
\* Store.newStoreRealm the Store (with its two maps).  Returns
\* sequential([abort, computationReleasable]).
EffectRun(s, rl, at) ==
  LET s1 == Emit(s, Ev("maker", at.idx, at.run, at.hist))
      s2 == Alloc(s1, Tagged([NewObj EXCEPT !.kind = "abort"], at))
      ab == s2.ret
      n == IF rl.k \in {"provide", "useStore"} THEN 1 ELSE rl.adds
      cleanup(i) ==
        IF rl.k = "provide"
        THEN [NewObj EXCEPT !.kind = "leaf", !.tag = "restore",
                            !.a = rl.vals[2], !.b = rl.c,
                            !.val = s.heap[rl.vals[2]].items[rl.c]]
        ELSE [NewObj EXCEPT !.kind = "leaf", !.tag = "cleanup",
                            !.flag = rl.slow, !.val = i - 1,
                            !.hist = at.hist]
      store == <<[NewObj EXCEPT !.kind = "store", !.b = ab + 2,
                                !.val = ab + 3],
                 [NewObj EXCEPT !.kind = "map", !.a = ab + 1],
                 [NewObj EXCEPT !.kind = "map", !.a = ab + 1]>>
      s3 == [s2 EXCEPT !.heap = @ \o IF rl.k = "useStore" THEN store
                         ELSE [i \in 1..n |-> Tagged(cleanup(i), at)]]
      s4 == Alloc(IF rl.k = "provide" THEN ProvideContext(s3, rl, ab + 1)
                  ELSE s3,
                  [NewObj EXCEPT !.kind = "comp",
                                 !.items = [i \in 1..n |-> ab + i]])
      comp == s4.ret
  IN Alloc(s4, [NewObj EXCEPT !.kind = "seq", !.items = <<ab, comp>>,
                              !.a = ab])

\* Variant of EffectSyncResource that releases the computation first.
EffectSyncResourceSwapped(s, t) ==
  Alloc(s, Tagged([NewObj EXCEPT !.kind = "seq", !.items = <<t.x, s.ret>>,
                                 !.tag = "effSync"], t.at))

\* EffectRealm.instantiate, synchronous branch:
\* sequential([observationReleasable, releasable])
EffectSyncResource(s, t) ==
  Alloc(s, Tagged([NewObj EXCEPT !.kind = "seq", !.items = <<s.ret, t.x>>,
                                 !.tag = "effSync"], t.at))

\* EffectRealm.instantiate; the maker of Store.newStoreRealm runs the
\* constructor of Store, which instantiates the Realm with create
EffectInstantiate(s, t) ==
  LET s1 == EffectRun(s, t.rl, t.at)
      res == s1.ret
  IN IF t.rl.k = "effAsync"
     THEN Alloc(s1, Tagged([NewObj EXCEPT !.kind = "effAsync", !.a = res,
                              !.b = 0, !.val = t.x, !.tag = "pending",
                              !.items = IF t.rl.timer THEN <<1>> ELSE <<>>,
                              !.hist = t.at.hist], t.at))
     ELSE Push(s1, (IF t.rl.k = "useStore"
                    THEN <<TInst(t.rl.vals[1], s1.heap[res].a + 1, NoAt),
                           Cont("setsub", s1.heap[res].a + 1)>>
                    ELSE <<>>) \o
                   <<TInvoke(t.x, 0, t.at), [Task("effseq") EXCEPT !.x = res,
                     !.at = t.at]>>)

\* EffectRealm.instantiate, the .then handler of the maker's promise
MakerThen(s, e) ==
  LET s1 == Emit([s EXCEPT !.heap[e].tag = "resolved"],
                 Ev("resolve", e, 0, <<>>))
  IN IF s.heap[e].flag
     THEN s1
     ELSE Push(s1, <<TInvoke(s.heap[e].val, 0, NoAt), Cont("effvalue", e)>>)

\* CellRealm.instantiate
CellInstantiate(s, t) ==
  LET c == t.rl.c
  IN IF s.cells[c].cellReleasing
     THEN Alloc(s, Tagged(NewObj, t.at))
     ELSE Push(s, <<TInvoke(t.x, s.cells[c].value, t.at),
                    [Task("cellinst") EXCEPT !.x = c, !.y = t.x,
                            !.at = t.at]>>)

DoCellInst(s, t) ==
  LET s1 == Alloc(s, Tagged([NewObj EXCEPT !.kind = "cellInst", !.a = s.ret,
                               !.b = t.y, !.val = t.x], t.at))
  IN [s1 EXCEPT !.cells[t.x].instances = Append(@, s1.ret)]

\* The subscribe function of the Realm returned by the setter of
\* newPortalRealm, after innerCreateTunnel(value) returned its Resource:
\* create(undefined), then sequential([create(undefined), releasable]).
PortalSubscribe(s, t) ==
  IF t.y = 0
  THEN Push(s, <<TInvoke(t.x, 0, t.at), [t EXCEPT !.y = s.ret]>>)
  ELSE Alloc(s, [NewObj EXCEPT !.kind = "seq", !.items = <<s.ret, t.y>>])

\* BasicRealm.instantiate for the subscribe functions of the model:
\* useIterable, Blueprint.toRealm, the setter of newPortalRealm and a
\* source driven from outside.
BasicInstantiate(s, t) ==
  LET s1 == Alloc(s, Tagged([NewObj EXCEPT !.kind = "bobs", !.b = t.x],
                            t.at))
      o == s1.ret
  IN CASE t.rl.k = "iter" ->
            Push(s1, <<[Task("iter") EXCEPT !.x = o, !.h = t.rl.vals,
                    !.q = <<>>, !.at = t.at], Cont("setsub", o)>>)
       [] t.rl.k = "blueprint" ->
            LET run == s1.runs + 1
                s2 == Alloc([s1 EXCEPT !.runs = run],
                            [NewObj EXCEPT !.kind = "comp", !.run = run])
                root == s2.ret
            IN Push(Emit([s2 EXCEPT !.ctx = run], Ev("run", 0, run, <<>>)),
                    <<[Task("body") EXCEPT !.x = run, !.h = <<>>, !.y = root,
                            !.z = o, !.v = 1, !.tmp = s.ctx, !.rl = t.rl],
                      TRet(root), Cont("setsub", o)>>)
       [] t.rl.k = "flatMap" ->
            LET s2 == Alloc(s1, [NewObj EXCEPT !.kind = "fmap", !.b = o])
            IN Push(s2, <<TInst(Rlm("source"), s2.ret, t.at),
                          Cont("setsub", o)>>)
       [] t.rl.k = "portal" ->
            Push(s1, <<TInvoke(s.heap[t.rl.c].a, t.rl.vals[1], NoAt),
                       [Task("tunnel") EXCEPT !.x = o, !.at = t.at],
                       Cont("setsub", o)>>)
       [] t.rl.k = "cellsrc" ->
            LET s2 == Alloc(s1, [NewObj EXCEPT !.kind = "comp"])
                c == s2.ret
                s3 == Alloc(s2, [NewObj EXCEPT !.kind = "csrc", !.a = c,
                                               !.b = o, !.val = t.rl.c])
                s4 == Alloc(s3, [NewObj EXCEPT !.kind = "tq", !.val = 1,
                                               !.b = s3.ret])
                s5 == Alloc(s4, [NewObj EXCEPT !.kind = "tqrel",
                                               !.a = s4.ret])
                s6 == Alloc(s5, [NewObj EXCEPT !.kind = "par",
                                               !.items = <<s5.ret, c>>])
                s7 == Alloc(s6, [NewObj EXCEPT !.kind = "tqRun",
                                               !.a = s4.ret])
            IN Push(s7, <<TInvoke(o, t.rl.c, t.at), Cont("addto", c),
                          TRelease(s7.ret), TRet(s6.ret), Cont("setsub", o)>>)
       [] OTHER ->
            LET s2 == Alloc(s1, [NewObj EXCEPT !.kind = "leaf",
                                   !.tag = "sub", !.flag = t.rl.slow,
                                   !.throws = t.rl.throws])
            IN Ret([s2 EXCEPT !.heap[o].a = s2.ret], o)

\* subscribe function of useIterable: create(v) for each v, in order.
DoIter(s, t) ==
  IF t.h = <<>>
  THEN Alloc(s, [NewObj EXCEPT !.kind = "seq", !.items = Reverse(t.q)])
  ELSE Push(s, <<TInvoke(t.x, Head(t.h), t.at),
                 [Task("iteracc") EXCEPT !.x = t.x, !.h = Tail(t.h),
                         !.q = t.q, !.at = t.at]>>)

\* realm.instantiate(observer)
DoInst(s, t) ==
  LET s0 == Emit(s, Ev("inst", t.at.idx, t.at.run, t.at.hist))
  IN CASE t.rl.k = "cell" -> CellInstantiate(s0, t)
       [] t.rl.k = "store" -> StoreInstantiate(s0, t)
       [] t.rl.k \in {"effSync", "effAsync", "provide", "useStore"} ->
            EffectInstantiate(s0, t)
       [] OTHER -> BasicInstantiate(s0, t)

\* consumeContext(key), after getBlueprintGlobalContext: the value of the
\* key in the user-context map of the Realm (0: undefined), or an error.
ConsumeContext(s, t, key) ==
  LET map == t.rl.c
      value == s.heap[map].items[key]
  IN IF value = 0
     THEN Push(Emit([s EXCEPT !.exc = TRUE, !.ret = 0],
                    Ev("threw", 3, t.x, <<key, map>>)), <<t>>)
     ELSE Push(Emit(s, Ev("consume", t.x, value, <<key, map>>)),
               <<[t EXCEPT !.v = @ + 1]>>)

\* The driver of observeBlueprint: the slot was set to the context of the
\* run and its previous value is kept in tmp.  The body is a straight line
\* of use calls and statements; the i-th is b[i], a use call is made
\* through the slot and is the currentIndex-th use call of the run (an
\* error of the user and Context.useConsumer are no use calls).  The body
\* of the Realm made by useStore is part of the Realm, the one of the root
\* Realm is the variable body.
\* useProvider provides a value the run makes, and its maker gets the map
\* that getUserCtx returns.  useStore takes a copy of the map and uses
\* Store.newStoreRealm of the Realm of the child body over that copy.
\* After the last call the body returns its
\* history as the result: the slot is restored and the result is
\* published with create.
\* Blueprint.useUserContext: { ...getUserCtx() }, made in run at.run
UseUserContext(s, map, at) == Alloc(s, Tagged(s.heap[map], at))

DoBody(s, t) ==
  LET run == t.x
      history == t.h
      cur == t.y
      create == t.z
      i == t.v
      b == IF t.rl.vals = <<>> THEN body ELSE t.rl.vals
      currentIndex ==
        Cardinality({j \in 1..(i - 1) : b[j].k \notin {"throw", "consume"}})
      fn == CASE b[i].k = "provide" -> 2
              [] b[i].k = "consume" -> 3
              [] OTHER -> 1
      s0 == GetBlueprintGlobalContext(s, fn, run)
      sU == IF b[i].k = "useStore" THEN UseUserContext(s0, t.rl.c, At(run, i, history))
            ELSE s0
      s1 == Alloc(sU, [NewObj EXCEPT !.kind = "usept",
                              !.tag = "none", !.hist = history,
                              !.b = create, !.run = run, !.idx = i,
                              !.ctx = s0.ctx, !.items = <<t.rl>>])
      realm == CASE b[i].k = "provide" ->
                      [b[i] EXCEPT !.vals = <<10 * run + i, t.rl.c>>]
                 [] b[i].k = "useStore" ->
                      [b[i] EXCEPT !.vals =
                         <<[Rlm("blueprint") EXCEPT !.c = sU.ret,
                                                    !.vals = b[i].vals]>>]
                 [] OTHER -> b[i]
  IN CASE i > Len(b) ->
            Push(Restore(s, t.tmp),
                 <<TInvoke(create, history, At(run, Len(b) + 1, history)),
                   Cont("addto", cur)>>)
       [] i <= Len(b) /\ b[i].k = "throw" ->
            Push(Throw(s, 0, run), <<t>>)
       [] i <= Len(b) /\ b[i].k # "throw" /\ s0.exc ->
            Push(s0, <<t>>)
       [] i <= Len(b) /\ b[i].k = "consume" /\ ~s0.exc ->
            ConsumeContext(s, t, b[i].c)
       [] OTHER ->
            IF UseReplays(currentIndex, history)
            THEN Push(s, <<[t EXCEPT !.v = i + 1]>>)
            ELSE Push(s1, <<TInst(realm, s1.ret, At(run, i, history)),
                            [t EXCEPT !.op = "afteruse", !.q = <<s1.ret>>]>>)

\* Variant of DoAfterUse that adds the observation to the Resource of the
\* part after the use-point when a value was published synchronously.
DoAfterUseAddToNext(s, t) ==
  LET u == t.q[1]
      obsv == s.ret
      into == IF s.heap[u].tag = "DONE" THEN s.heap[u].a ELSE t.y
      s1 == Emit([s EXCEPT !.heap[into].items = Append(@, obsv),
                           !.heap[u].tag = "ASYNC"],
                 Ev("used", u, t.x, <<>>))
      h == Append(t.h, s.heap[u].val)
  IN IF s.heap[u].tag = "DONE"
     THEN Push(Emit(s1, Ev("cont", u, t.x, h)),
               <<[Task("body") EXCEPT !.x = t.x, !.h = h, !.y = s.heap[u].a,
                       !.z = t.z, !.v = t.v + 1, !.tmp = t.tmp,
                       !.rl = t.rl]>>)
     ELSE Restore(s1, t.tmp)

\* use(realm) after realm.instantiate(observer) returned (part_012 lines
\* 171-184); without a synchronous value it throws the chain exception,
\* which observeBlueprint catches: the slot is restored (lines 200-204).
DoAfterUse(s, t) ==
  LET u == t.q[1]
      obsv == s.ret
      s1 == Emit([s EXCEPT !.heap[t.y].items = Append(@, obsv),
                           !.heap[u].tag = "ASYNC"],
                 Ev("used", u, t.x, <<>>))
      h == Append(t.h, s.heap[u].val)
  IN IF s.heap[u].tag = "DONE"
     THEN Push(Emit(s1, Ev("cont", u, t.x, h)),
               <<[Task("body") EXCEPT !.x = t.x, !.h = h, !.y = s.heap[u].a,
                       !.z = t.z, !.v = t.v + 1, !.tmp = t.tmp,
                       !.rl = t.rl]>>)
     ELSE Restore(s1, t.tmp)

\* Variant of ModStep that starts the release of the old Resource before
\* the observer is called with the new value.
ModStepReleaseFirst(s, c, inst) ==
  Push(s, <<TRelease(s.heap[inst].a),
            Cont("modadd", inst),
            TInvoke(s.heap[inst].b, s.cells[c].value, NoAt),
            [Task("modswap") EXCEPT !.x = inst, !.y = s.heap[inst].a]>>)

\* One iteration of the loop of CellRealm.modify (part_006 lines 182-196):
\* observer first, then the release of the old Resource.
ModStep(s, c, inst) ==
  Push(s, <<TInvoke(s.heap[inst].b, s.cells[c].value, NoAt),
            [Task("modswap") EXCEPT !.x = inst, !.y = s.heap[inst].a],
            TRelease(s.heap[inst].a),
            Cont("modadd", inst)>>)

\* instance.releasing.add(releasingPromise)
DoModAdd(s, t) ==
  IF s.frames[s.ret].done
  THEN s
  ELSE [s EXCEPT !.heap[t.x].set = @ \cup {s.ret}]

DoModLoop(s, t) ==
  LET c == t.x
      k == t.y
  IN IF k > Len(s.cells[c].instances)
     THEN s
     ELSE ModStep(Push(s, <<[Task("modloop") EXCEPT !.x = c, !.y = k + 1]>>),
             c,
                  s.cells[c].instances[k])

\* Variant of Modify without the comparison with the current value.
ModifyAlways(s, c, newValue) ==
  Push([s EXCEPT !.cells[c].value = newValue],
          <<[Task("modloop") EXCEPT !.x = c, !.y = 1]>>)

\* CellRealm.modify with the modifier of set: _ => newValue
Modify(s, c, newValue) ==
  IF newValue = s.cells[c].value
  THEN s
  ELSE Push([s EXCEPT !.cells[c].value = newValue],
          <<[Task("modloop") EXCEPT !.x = c, !.y = 1]>>)

\* ------------------------------------------------ the synchronous engine
Step(s) ==
  LET t == Head(s.stack)
      s0 == [s EXCEPT !.stack = Tail(@)]
  IN CASE s0.exc ->
            \* An error passes through a pending call.  A body run is
            \* inside the try of observeBlueprint: its catch restores the
            \* slot and throws the error again (part_012 lines 200-207);
            \* no other call of the model catches.
            IF t.op \in {"body", "afteruse"}
            THEN Restore(s0, t.tmp)
            ELSE s0
       [] t.op = "release" -> DoRelease(s0, t)
       [] t.op = "loop" -> DoLoop(s0, t)
       [] t.op = "bloop" -> DoBasicLoop(s0, t)
       [] t.op = "await" -> DoAwait(s0, t)
       [] t.op = "ret" -> Ret(s0, t.x)
       [] t.op = "advance" -> DoAdvance(s0, t)
       [] t.op = "invoke" -> DoInvoke(s0, t)
       [] t.op = "wrap" -> DoWrap(s0, t)
       [] t.op = "inst" -> DoInst(s0, t)
       [] t.op = "cellinst" -> DoCellInst(s0, t)
       [] t.op = "effseq" -> EffectSyncResource(s0, t)
       \* releaseSubscription = this.subscribeFunc(wrappedObserver)
       [] t.op = "setsub" ->
            Ret([s0 EXCEPT !.heap[t.x].a = s0.ret], t.x)
       [] t.op = "iter" -> DoIter(s0, t)
       \* releasables.push(releasable)
       [] t.op = "iteracc" ->
            Push(s0, <<[Task("iter") EXCEPT !.x = t.x, !.h = t.h,
                          !.q = Append(t.q, s0.ret), !.at = t.at]>>)
       [] t.op = "body" -> DoBody(s0, t)
       [] t.op = "afteruse" -> DoAfterUse(s0, t)
       \* currentResultReleasable.add(create(result))
       [] t.op = "addto" ->
            [s0 EXCEPT !.heap[t.x].items = Append(@, s0.ret)]
       \* instance.currentResource = newResource
       [] t.op = "modswap" ->
            [s0 EXCEPT !.heap[t.x].a = s0.ret]
       [] t.op = "modadd" -> DoModAdd(s0, t)
       [] t.op = "modloop" -> DoModLoop(s0, t)
       \* asyncReleasable.release = sequential([observationReleasable, ..])
       [] t.op = "effvalue" ->
            [s0 EXCEPT !.heap[t.x].b = s0.ret]
       [] t.op = "cellloop" -> DoCellLoop(s0, t)
       [] t.op = "celladd" -> DoCellAdd(s0, t)
       \* an observer that instantiates another observer keeps the handle
       [] t.op = "keep" ->
            [s0 EXCEPT !.heap[t.x].a = s0.ret]
       [] t.op = "leaf" -> DoLeaf(s0, t)
       [] t.op = "unlinkloop" -> DoUnlinkLoop(s0, t)
       [] t.op = "unlinkadd" -> DoUnlinkAdd(s0, t)
       [] t.op = "join" -> [s0 EXCEPT !.frames[t.x].waitset = @ \cup {s0.ret}]
       [] t.op = "tqloop" -> DoTqLoop(s0, t)
       [] t.op = "setrunning" -> [s0 EXCEPT !.heap[t.x].a = s0.ret]
       [] t.op = "finish" -> Finish(s0, t.x)
       [] t.op = "storeloop" -> DoStoreLoop(s0, t)
       [] t.op = "regloop" -> DoRegLoop(s0, t)
       [] t.op = "link" -> DoLink(s0, t)
       [] t.op = "reg" ->
            Alloc(s0, [NewObj EXCEPT !.kind = "sreg", !.a = t.x, !.b = t.y])
       [] t.op = "tunnel" -> PortalSubscribe(s0, t)
       [] OTHER -> s0

\* run the pending synchronous calls to the end
RECURSIVE Run(_)
Run(s) == IF s.stack = <<>> THEN s ELSE Run(Step(s))

Call(s, t) == Run(Push(s, <<t>>))

\* ------------------------------------------------- steps of the runtime
NoCalls ==
  [sets |-> 0, pubs |-> 0, tops |-> <<>>, released |-> {}, block |-> FALSE]

\* "store": the Store over the tunnel; "cstore": the Store of newCellRealm;
\* "fail": the Store over the tunnel, with Resources whose release fails
\* "portal": the Store and the setter of newPortalRealm; "cfn": the Store
\* of newCellRealm with function updates
StoreModes == {"store", "cstore", "fail", "portal", "cfn"}

\* In mode "store" callers run when no continuation is pending, and a
\* caller may make several release() calls in a row: block tells that the
\* last step was a release() call.
CallerMayRelease == jobs = <<>> \/ calls.block

\* A suspended release() continues after the promise it awaits settled.
Resume ==
  \E f \in 1..Len(frames) :
    /\ jobs # <<>> /\ f = Head(jobs)
    /\ Commit(Call([St EXCEPT !.jobs = Tail(@)],
                   [Task("advance") EXCEPT !.x = f]))
    /\ calls' = [calls EXCEPT !.block = FALSE]
    /\ UNCHANGED <<body, mode>>

\* The release of a Resource supplied by the user completes.  It waits on
\* a timer, and a timer fires when the job queue is empty.
LeafDone ==
  \E f \in 1..Len(frames) :
    /\ frames[f].pc = "running"
    /\ jobs = <<>>
    /\ Commit(Settle(St, f, Outcome(heap[frames[f].res], frames[f].res)))
    /\ calls' = [calls EXCEPT !.block = FALSE]
    /\ UNCHANGED <<body, mode>>

\* The owner calls release() on a Resource it was handed.
ReleaseTop ==
  \E i \in 1..Len(calls.tops) :
    /\ i \notin calls.released
    /\ mode = "timed" => jobs = <<>>
    /\ mode \in StoreModes =>
         /\ CallerMayRelease
         /\ Cardinality(calls.released) <
              (IF mode = "fail" THEN MaxFailDrop ELSE MaxStoreDrop)
    /\ Commit(Call(Emit(St, Ev("release", calls.tops[i], 0, <<>>)),
                   TRelease(calls.tops[i])))
    /\ calls' = [calls EXCEPT !.released = @ \cup {i},
                              !.block = (mode \in StoreModes)]
    /\ UNCHANGED <<body, mode>>

\* ------------------------------------------------- CellRealm on its own
CellVals == {0, 5, 10}

InitCell ==
  /\ heap = <<>>
  /\ frames = <<>>
  /\ jobs = <<>>
  /\ log = <<>>
  /\ cells = <<NewCell(0)>>
  /\ runs = 0
  /\ ambient = 0
  /\ body = <<>>
  /\ mode = "cell"
  /\ calls = NoCalls

\* cell.instantiate(observer) with an observer that logs value:N and
\* returns a Resource that logs released:N.
CellObserve ==
  /\ Len(calls.tops) < MaxInst
  /\ LET s1 == Alloc(St, [NewObj EXCEPT !.kind = "sink"])
         s2 == Call(s1, TInst([Rlm("cell") EXCEPT !.c = 1], s1.ret, NoAt))
     IN /\ Commit(s2)
        /\ calls' = [calls EXCEPT !.tops = Append(@, s2.ret)]
  /\ UNCHANGED <<body, mode>>

\* cell.set(v)
SetCall(c, v) ==
  /\ Commit(Emit(Run(Modify(Emit(St, Ev("setCall", c, v, <<>>)), c, v)),
                 Ev("setReturn", c, v, <<>>)))
  /\ calls' = [calls EXCEPT !.sets = @ + 1]
  /\ UNCHANGED <<body, mode>>

CellSet ==
  \E v \in CellVals :
    /\ calls.sets < MaxSets
    /\ SetCall(1, v)

SpecCell ==
  InitCell
    /\ [][CellObserve \/ CellSet \/ ReleaseTop \/ Resume \/ LeafDone]_vars

\* ------------------------- CellRealm: release and callbacks that observe
InitLife ==
  /\ heap = <<>>
  /\ frames = <<>>
  /\ jobs = <<>>
  /\ log = <<>>
  /\ cells = <<NewCell(0)>>
  /\ runs = 0
  /\ ambient = 0
  /\ body = <<>>
  /\ mode = "life"
  /\ calls = NoCalls

\* cell.instantiate(observer): the observer logs value:N; a spawner also
\* instantiates a further observer on the cell when it is invoked by a set.
LifeObserve ==
  \E kind \in {"", "spawner"} :
    /\ mode = "life"
    /\ Len(calls.tops) < MaxLifeInst
    /\ LET s1 == Alloc(St, [NewObj EXCEPT !.kind = "sink", !.tag = kind,
                                          !.val = 1])
           s2 == Call(s1, TInst([Rlm("cell") EXCEPT !.c = 1], s1.ret, NoAt))
       IN /\ Commit(s2)
          /\ calls' = [calls EXCEPT !.tops = Append(@, s2.ret)]
    /\ UNCHANGED <<body, mode>>

LifeSet ==
  \E v \in CellVals :
    /\ mode = "life"
    /\ calls.sets < MaxLifeSets
    /\ SetCall(1, v)

\* cell.release()
CellRelease ==
  /\ mode = "life"
  /\ 0 \notin calls.released
  /\ LET s1 == Alloc(Emit(St, Ev("cellRelease", 1, Len(heap), <<>>)),
                     [NewObj EXCEPT !.kind = "cellRes", !.val = 1])
     IN Commit(Call(s1, TRelease(s1.ret)))
  /\ calls' = [calls EXCEPT !.released = @ \cup {0}]
  /\ UNCHANGED <<body, mode>>

SpecLife ==
  InitLife
    /\ [][LifeObserve \/ LifeSet \/ CellRelease \/ ReleaseTop \/ Resume
           \/ LeafDone]_vars

\* ------------------------------------------------ BasicRealm on its own
\* A BasicRealm over a source driven from outside, observed once with an
\* observer that returns a Resource whose release takes time.  The owner
\* holds the observation, the source holds the child handles.
InitBasic ==
  LET e == [heap |-> <<>>, frames |-> <<>>, jobs |-> <<>>, log |-> <<>>,
            cells |-> <<>>, runs |-> 0, ctx |-> 0,
            exc |-> FALSE, ret |-> 0, stack |-> <<>>]
      s1 == Alloc(e, [NewObj EXCEPT !.kind = "sink"])
      s2 == Call(s1, TInst(Rlm("source"), s1.ret, NoAt))
  IN /\ heap = s2.heap
     /\ frames = s2.frames
     /\ jobs = s2.jobs
     /\ log = s2.log
     /\ cells = s2.cells
     /\ runs = s2.runs
     /\ ambient = s2.ctx
     /\ body = <<>>
     /\ mode = "basic"
     /\ calls = [NoCalls EXCEPT !.tops = <<s2.ret>>]

\* the subscribe function's source publishes: wrappedObserver(v)
SourcePublish ==
  /\ mode \in {"basic", "repeat"}
  /\ calls.pubs < MaxPub
  /\ \A f \in 1..Len(frames) : heap[frames[f].res].tag # "sub"
  /\ LET s1 == Call(St, TInvoke(calls.tops[1], calls.pubs + 1, NoAt))
     IN /\ Commit(s1)
        /\ calls' = [calls EXCEPT !.pubs = @ + 1, !.tops = Append(@, s1.ret)]
  /\ UNCHANGED <<body, mode>>

SpecBasic ==
  InitBasic
    /\ [][SourcePublish \/ ReleaseTop \/ Resume \/ LeafDone]_vars

\* ------------------------------------------------------------- Store
\* A Store over the tunnel of newPortalRealm: the source is a BasicRealm
\* whose subscribe function keeps the observer (innerCreateTunnel) and
\* returns a Resource that does nothing on release.
TheStore == 1

InitStore ==
  LET e == [heap |-> <<>>, frames |-> <<>>, jobs |-> <<>>, log |-> <<>>,
            cells |-> <<>>, runs |-> 0, ctx |-> 0,
            exc |-> FALSE, ret |-> 0, stack |-> <<>>]
      s1 == Alloc(e, [NewObj EXCEPT !.kind = "store", !.b = 2, !.val = 3])
      s2 == Alloc(Alloc(s1, [NewObj EXCEPT !.kind = "map", !.a = TheStore]),
                  [NewObj EXCEPT !.kind = "map", !.a = TheStore])
      s3 == Call(s2, TInst(Rlm("source"), TheStore, NoAt))
      s4 == [s3 EXCEPT !.heap[TheStore].a = s3.ret]
  IN /\ heap = s4.heap
     /\ frames = s4.frames
     /\ jobs = s4.jobs
     /\ log = s4.log
     /\ cells = s4.cells
     /\ runs = s4.runs
     /\ ambient = s4.ctx
     /\ body = <<>>
     /\ mode = "store"
     /\ calls = NoCalls

\* store.instantiate(observer) from outside; the caller keeps the Resource.
\* A "registrar" registers one more observer when it is first called, a
\* "publisher" sends one more value through the tunnel, as long as the
\* bounds allow one more; such an observer is the first one of the Store.
\* The callers of instantiate and of the tunnel run when no continuation
\* is pending.
StoreObserve ==
  /\ mode \in StoreModes
  /\ jobs = <<>>
  /\ \E k \in {"", "registrar", "publisher"} :
       /\ SinkCount(St) < (CASE mode = "fail" -> MaxFailObs
                              [] mode = "cfn" -> 1
                              [] OTHER -> MaxStoreObs)
       /\ k # "" => SinkCount(St) = 0 /\ mode = "store"
       /\ \E th \in IF mode = "fail" THEN BOOLEAN ELSE {FALSE} :
            LET s1 == Alloc(St, [NewObj EXCEPT !.kind = "sink", !.tag = k,
                                              !.val = TheStore,
                                              !.throws = th])
                s2 == Call(s1, TInst([Rlm("store") EXCEPT !.c = TheStore],
                                     s1.ret, NoAt))
            IN /\ Commit(s2)
               /\ calls' = [calls EXCEPT !.tops = Append(@, s2.ret)]
  /\ UNCHANGED <<body, mode>>

\* a value is sent through the tunnel: innerCreateTunnel(value); the
\* caller keeps the Resource of the value.
StorePublish ==
  /\ mode \in {"store", "fail"}
  /\ jobs = <<>>
  /\ NextValue(St) <= (IF mode = "fail" THEN MaxFailPub ELSE MaxStorePub)
  /\ LET s1 == Call(St, TInvoke(heap[TheStore].a, NextValue(St), NoAt))
     IN /\ Commit(s1)
        /\ calls' = [calls EXCEPT !.tops = Append(@, s1.ret)]
  /\ UNCHANGED <<body, mode>>

\* store.release() from outside
StoreReleaseCall ==
  /\ mode \in StoreModes
  /\ Cardinality({j \in 1..Len(log) : log[j].e = "storeRelease"}) < MaxStoreRel
  /\ CallerMayRelease
  /\ Commit(Call(St, TRelease(TheStore)))
  /\ calls' = [calls EXCEPT !.block = TRUE]
  /\ UNCHANGED <<body, mode>>

NextStore ==
  StoreObserve \/ StorePublish \/ StoreReleaseCall \/ ReleaseTop
    \/ Resume \/ LeafDone

SpecStore == InitStore /\ [][NextStore]_vars

\* The same Store over a source whose observation may fail to release,
\* with observers whose Resources may fail to release.
InitStoreFail ==
  \E slow \in BOOLEAN, throws \in BOOLEAN :
    LET e == [heap |-> <<>>, frames |-> <<>>, jobs |-> <<>>, log |-> <<>>,
              cells |-> <<>>, runs |-> 0, ctx |-> 0,
            exc |-> FALSE, ret |-> 0, stack |-> <<>>]
        s1 == Alloc(e, [NewObj EXCEPT !.kind = "store", !.b = 2, !.val = 3])
        s2 == Alloc(Alloc(s1, [NewObj EXCEPT !.kind = "map", !.a = TheStore]),
                    [NewObj EXCEPT !.kind = "map", !.a = TheStore])
        s3 == Call(s2, TInst([Rlm("source") EXCEPT !.slow = slow,
                                                   !.throws = throws],
                             TheStore, NoAt))
        s4 == [s3 EXCEPT !.heap[TheStore].a = s3.ret]
    IN /\ heap = s4.heap
       /\ frames = s4.frames
       /\ jobs = s4.jobs
       /\ log = s4.log
       /\ cells = s4.cells
       /\ runs = s4.runs
       /\ ambient = s4.ctx
       /\ body = <<>>
       /\ mode = "fail"
       /\ calls = NoCalls

SpecStoreFail == InitStoreFail /\ [][NextStore]_vars

\* ---------------------------------------------------- newPortalRealm
InitPortal ==
  LET e == [heap |-> <<>>, frames |-> <<>>, jobs |-> <<>>, log |-> <<>>,
            cells |-> <<>>, runs |-> 0, ctx |-> 0,
            exc |-> FALSE, ret |-> 0, stack |-> <<>>]
      s1 == Alloc(e, [NewObj EXCEPT !.kind = "store", !.b = 2, !.val = 3])
      s2 == Alloc(Alloc(s1, [NewObj EXCEPT !.kind = "map", !.a = TheStore]),
                  [NewObj EXCEPT !.kind = "map", !.a = TheStore])
      s3 == Call(s2, TInst(Rlm("source"), TheStore, NoAt))
      s4 == [s3 EXCEPT !.heap[TheStore].a = s3.ret]
  IN /\ heap = s4.heap
     /\ frames = s4.frames
     /\ jobs = s4.jobs
     /\ log = s4.log
     /\ cells = s4.cells
     /\ runs = s4.runs
     /\ ambient = s4.ctx
     /\ body = <<>>
     /\ mode = "portal"
     /\ calls = NoCalls

\* setter(v).instantiate(observer) from outside, with an observer that
\* returns Releasable.noop and remembers v; the caller keeps the Resource.
PortalInstantiate ==
  /\ mode = "portal"
  /\ jobs = <<>>
  /\ calls.pubs < MaxPortalInst
  /\ \E v \in {1, 2} :
       LET s1 == Alloc(St, [NewObj EXCEPT !.kind = "client", !.val = v])
           s2 == Call(s1, TInst([Rlm("portal") EXCEPT !.c = TheStore,
                                                      !.vals = <<v>>],
                                s1.ret, NoAt))
       IN /\ Commit(s2)
          /\ calls' = [calls EXCEPT !.pubs = @ + 1,
                                    !.tops = Append(@, s2.ret)]
  /\ UNCHANGED <<body, mode>>

SpecPortal ==
  InitPortal
    /\ [][StoreObserve \/ PortalInstantiate \/ ReleaseTop \/ Resume
           \/ LeafDone]_vars

\* ------------------------------------------- the Store of newCellRealm
InitialValue == 0

InitCellStore ==
  LET e == [heap |-> <<>>, frames |-> <<>>, jobs |-> <<>>, log |-> <<>>,
            cells |-> <<>>, runs |-> 0, ctx |-> 0,
            exc |-> FALSE, ret |-> 0, stack |-> <<>>]
      s1 == Alloc(e, [NewObj EXCEPT !.kind = "store", !.b = 2, !.val = 3])
      s2 == Alloc(Alloc(s1, [NewObj EXCEPT !.kind = "map", !.a = TheStore]),
                  [NewObj EXCEPT !.kind = "map", !.a = TheStore])
      s3 == Call(s2, TInst([Rlm("cellsrc") EXCEPT !.c = InitialValue],
                           TheStore, NoAt))
      s4 == [s3 EXCEPT !.heap[TheStore].a = s3.ret]
  IN /\ heap = s4.heap
     /\ frames = s4.frames
     /\ jobs = s4.jobs
     /\ log = s4.log
     /\ cells = s4.cells
     /\ runs = s4.runs
     /\ ambient = s4.ctx
     /\ body = <<>>
     /\ mode = "cstore"
     /\ calls = NoCalls

TheQueue == CHOOSE q \in 1..Len(heap) : heap[q].kind = "tq"

\* the setter of newCellRealm: tasks.enqueue(update).  calls.sets is the
\* last value that was set, calls.pubs counts the calls; a call sets the
\* last value again or a new one.
CellStoreSet ==
  /\ mode = "cstore"
  /\ jobs = <<>>
  /\ calls.pubs < MaxStoreSets
  /\ \E v \in {calls.sets, calls.sets + 1} :
       LET s1 == Alloc([St EXCEPT !.heap[TheQueue].items = Append(@, v)],
                       [NewObj EXCEPT !.kind = "tqRun", !.a = TheQueue])
       IN /\ Commit(IF heap[TheQueue].val = 1
                    THEN Call(s1, TRelease(s1.ret))
                    ELSE [St EXCEPT !.heap[TheQueue].items = Append(@, v)])
          /\ calls' = [calls EXCEPT !.sets = v, !.pubs = @ + 1]
  /\ UNCHANGED <<body, mode>>

\* the setter of newCellRealm with the function update prev => prev + 1,
\* called at any time
CellStoreModify ==
  /\ mode = "cfn"
  /\ calls.pubs < MaxFnSets
  /\ LET s1 == Alloc([St EXCEPT !.heap[TheQueue].items = Append(@, -1)],
                     [NewObj EXCEPT !.kind = "tqRun", !.a = TheQueue])
     IN Commit(IF heap[TheQueue].val = 1
               THEN Call(s1, TRelease(s1.ret))
               ELSE [St EXCEPT !.heap[TheQueue].items = Append(@, -1)])
  /\ calls' = [calls EXCEPT !.pubs = @ + 1]
  /\ UNCHANGED <<body, mode>>

InitCellFn ==
  LET e == [heap |-> <<>>, frames |-> <<>>, jobs |-> <<>>, log |-> <<>>,
            cells |-> <<>>, runs |-> 0, ctx |-> 0,
            exc |-> FALSE, ret |-> 0, stack |-> <<>>]
      s1 == Alloc(e, [NewObj EXCEPT !.kind = "store", !.b = 2, !.val = 3])
      s2 == Alloc(Alloc(s1, [NewObj EXCEPT !.kind = "map", !.a = TheStore]),
                  [NewObj EXCEPT !.kind = "map", !.a = TheStore])
      s3 == Call(s2, TInst([Rlm("cellsrc") EXCEPT !.c = InitialValue],
                           TheStore, NoAt))
      s4 == [s3 EXCEPT !.heap[TheStore].a = s3.ret]
  IN /\ heap = s4.heap
     /\ frames = s4.frames
     /\ jobs = s4.jobs
     /\ log = s4.log
     /\ cells = s4.cells
     /\ runs = s4.runs
     /\ ambient = s4.ctx
     /\ body = <<>>
     /\ mode = "cfn"
     /\ calls = NoCalls

SpecCellFn ==
  InitCellFn
    /\ [][StoreObserve \/ CellStoreModify \/ Resume \/ LeafDone]_vars

SpecCellStore ==
  InitCellStore
    /\ [][StoreObserve \/ CellStoreSet \/ StoreReleaseCall \/ ReleaseTop
           \/ Resume \/ LeafDone]_vars

\* ----------------------------------------------- BiLinkMap on its own
\* A BiLinkMap (indices 2 and 3 of owner 1) whose user links Resources
\* that take time to release to the pair (1, 1), and calls unlink(1, 1)
\* and unlinkAll(), at any time.
InitLink ==
  /\ heap = <<[NewObj EXCEPT !.kind = "owner", !.b = 2, !.val = 3],
              [NewObj EXCEPT !.kind = "map", !.a = 1],
              [NewObj EXCEPT !.kind = "map", !.a = 1]>>
  /\ frames = <<>>
  /\ jobs = <<>>
  /\ log = <<>>
  /\ cells = <<>>
  /\ runs = 0
  /\ ambient = 0
  /\ body = <<>>
  /\ mode = "link"
  /\ calls = NoCalls

\* map.link(1, 1, l) with a new Resource l
LinkCall ==
  /\ mode = "link"
  /\ calls.pubs < MaxLinks
  /\ LET s1 == Alloc(St, [NewObj EXCEPT !.kind = "leaf", !.tag = "value",
                                        !.flag = TRUE,
                                        !.val = calls.pubs + 1])
         s2 == Alloc(s1, [NewObj EXCEPT !.kind = "linkCall", !.a = 1,
                                        !.items = <<1, 1, s1.ret>>])
     IN Commit(Call(Emit(s2, Ev("link", s1.ret, 0, <<>>)), TRelease(s2.ret)))
  /\ calls' = [calls EXCEPT !.pubs = @ + 1]
  /\ UNCHANGED <<body, mode>>

\* map.unlink(1, 1)
UnlinkCall ==
  /\ mode = "link"
  /\ calls.sets < MaxUnlinks
  /\ LET s1 == Alloc(St, [NewObj EXCEPT !.kind = "unlinkCall", !.a = 1,
                                        !.items = <<1, 1, 0>>])
     IN Commit(Call(s1, TRelease(s1.ret)))
  /\ calls' = [calls EXCEPT !.sets = @ + 1]
  /\ UNCHANGED <<body, mode>>

\* map.unlinkAll()
UnlinkAllCall ==
  /\ mode = "link"
  /\ calls.sets < MaxUnlinks
  /\ Commit(Call(St, TRelease(2)))
  /\ calls' = [calls EXCEPT !.sets = @ + 1]
  /\ UNCHANGED <<body, mode>>

SpecLink ==
  InitLink
    /\ [][LinkCall \/ UnlinkCall \/ UnlinkAllCall \/ Resume \/ LeafDone]_vars

\* ----------------------------------------------- TaskQueue on its own
\* A TaskQueue whose user enqueues tasks 1, 2, ... at any time, launches
\* it with a handler that takes time and fails on some tasks, and
\* releases the Resource of launch.
InitQueue ==
  /\ heap = <<[NewObj EXCEPT !.kind = "tq"]>>
  /\ frames = <<>>
  /\ jobs = <<>>
  /\ log = <<>>
  /\ cells = <<>>
  /\ runs = 0
  /\ ambient = 0
  /\ body = <<>>
  /\ mode = "queue"
  /\ calls = NoCalls

\* queue.enqueue(task): the item is pushed, and run() is called when the
\* queue is launched
Enqueue ==
  \E th \in BOOLEAN :
    /\ mode = "queue"
    /\ calls.pubs < MaxEnqueue
    /\ LET p == Len(frames) + 1
           s1 == Alloc(St, [NewObj EXCEPT !.kind = "enq", !.a = p,
                                          !.val = calls.pubs + 1,
                                          !.throws = th])
           e == s1.ret
           s2 == Emit([s1 EXCEPT
                         !.frames = Append(@, [NewFrame(e) EXCEPT
                                                 !.pc = "pending"]),
                         !.heap[TheQueue].items = Append(@, e)],
                      Ev("enqueue", e, calls.pubs + 1,
                         <<heap[TheQueue].val>>))
           s3 == Alloc(s2, [NewObj EXCEPT !.kind = "tqRun", !.a = TheQueue])
       IN Commit(IF heap[TheQueue].val = 1
                 THEN Call(s3, TRelease(s3.ret))
                 ELSE s2)
    /\ calls' = [calls EXCEPT !.pubs = @ + 1]
    /\ UNCHANGED <<body, mode>>

\* queue.launch(handler); the caller keeps the Resource
Launch ==
  /\ mode = "queue"
  /\ calls.sets < MaxLaunch
  /\ LET s1 == Alloc([St EXCEPT !.heap[TheQueue].val = 1,
                                !.heap[TheQueue].flag = FALSE],
                     [NewObj EXCEPT !.kind = "tqrel", !.a = TheQueue])
         s2 == Alloc(s1, [NewObj EXCEPT !.kind = "tqRun", !.a = TheQueue])
     IN /\ Commit(Call(s2, TRelease(s2.ret)))
        /\ calls' = [calls EXCEPT !.sets = @ + 1,
                                  !.tops = Append(@, s1.ret)]
  /\ UNCHANGED <<body, mode>>

SpecQueue ==
  InitQueue
    /\ [][Enqueue \/ Launch \/ ReleaseTop \/ Resume \/ LeafDone]_vars

\* The same under the scheduling of the event loop: a continuation that
\* is ready is run (Resume is enabled exactly when jobs is not empty, so
\* its weak fairness is that jobs is empty again and again), and the
\* timer of a handler fires.
SpecQueueLive == SpecQueue /\ []<>(jobs = <<>>) /\ WF_vars(LeafDone)

\* --------------------------------------------------- Blueprint.toRealm
\* Bodies: straight lines of use calls over two cells (cell 1 holds 0,
\* cell 2 holds 100), logging effects, a timeout, an async effect and an
\* iterable.
UseCell(c) == [Rlm("cell") EXCEPT !.c = c]

UseLog == Rlm("effSync")

UseLogWithCleanup == [Rlm("effSync") EXCEPT !.adds = 1]

UseAsyncEffect == Rlm("effAsync")

UseIterable == [Rlm("iter") EXCEPT !.vals = <<1, 2>>]

BodyCancel == <<UseCell(1), UseLog,
               [Rlm("effAsync") EXCEPT !.adds = 1, !.timer = TRUE],
               UseCell(2), UseLog>>

BodyPair == <<UseCell(1), UseCell(2)>>

Bodies == {BodyCancel, BodyPair,
           <<UseLogWithCleanup, UseCell(1), UseLogWithCleanup>>,
           <<UseLog, UseIterable, UseAsyncEffect>>}

InitBlueprint ==
  /\ heap = <<>>
  /\ frames = <<>>
  /\ jobs = <<>>
  /\ log = <<>>
  /\ cells = <<NewCell(0), NewCell(100)>>
  /\ runs = 0
  /\ ambient = 0
  /\ body \in Bodies
  /\ mode = "blueprint"
  /\ calls = NoCalls

\* Blueprint.toRealm(body).instantiate(observer): the observer logs the
\* result and returns a Resource whose release takes time.
Observe ==
  /\ mode \in {"blueprint", "timed"}
  /\ calls.tops = <<>>
  /\ LET s1 == Alloc(St, [NewObj EXCEPT !.kind = "outer",
                                        !.flag = (body # BodyCancel)])
         s2 == Call(s1, TInst(Rlm("blueprint"), s1.ret, NoAt))
     IN /\ Commit(s2)
        /\ calls' = [calls EXCEPT !.tops = <<s2.ret>>]
  /\ UNCHANGED <<body, mode>>

\* cell.set(v) on a cell the body uses
CellWrite ==
  \E c \in 1..Len(cells) : \E v \in (IF c = 1 THEN {1, 2} ELSE {200}) :
    /\ calls.tops # <<>>
    /\ \E i \in 1..Len(body) : body[i].k = "cell" /\ body[i].c = c
    /\ \/ mode = "blueprint" /\ calls.sets < MaxWrites
       \/ mode = "fork" /\ calls.sets < MaxForkWrites
       \/ mode = "timed" /\ calls.sets < MaxTimedWrites /\ jobs = <<>>
    /\ SetCall(c, v)

\* The promise of an asynchronous maker resolves.  The callback of
\* useTimeout runs when the job queue is empty and resolves only while the
\* signal is not aborted.
MakerResolve ==
  \E e \in 1..Len(heap) :
    /\ heap[e].kind = "effAsync"
    /\ heap[e].tag = "pending"
    /\ heap[e].items # <<>> => jobs = <<>> /\ ~heap[heap[heap[e].a].a].flag
    /\ Commit(Run(MakerThen(St, e)))
    /\ UNCHANGED <<body, mode, calls>>

NextBlueprint ==
  Observe \/ CellWrite \/ MakerResolve \/ ReleaseTop \/ Resume \/ LeafDone

SpecBlueprint == InitBlueprint /\ [][NextBlueprint]_vars

\* The callers of the tests: every set and release is made from a timer
\* callback, when the job queue is empty.
InitTimed ==
  /\ heap = <<>>
  /\ frames = <<>>
  /\ jobs = <<>>
  /\ log = <<>>
  /\ cells = <<NewCell(0), NewCell(100)>>
  /\ runs = 0
  /\ ambient = 0
  /\ body \in Bodies
  /\ mode = "timed"
  /\ calls = NoCalls

SpecTimed == InitTimed /\ [][NextBlueprint]_vars

\* ------------------------------------------- the Resource combinators
\* Releasable.sequential(items), Releasable.parallel(items) or a
\* CompositeReleasable to which the items were added in this order. A user
\* Resource: its release() takes time or not, and fails or not.
InitRes ==
  /\ body \in [1..ResItems -> [slow : BOOLEAN, throws : BOOLEAN]]
  /\ \E k \in {"seq", "par", "comp"} :
       heap = [i \in 1..ResItems |->
                 [NewObj EXCEPT !.kind = "leaf", !.flag = body[i].slow,
                                !.val = i, !.throws = body[i].throws]]
              \o <<[NewObj EXCEPT !.kind = k,
                                  !.items = [i \in 1..ResItems |-> i]]>>
  /\ frames = <<>>
  /\ jobs = <<>>
  /\ log = <<>>
  /\ cells = <<>>
  /\ runs = 0
  /\ ambient = 0
  /\ mode = "res"
  /\ calls = [NoCalls EXCEPT !.tops = <<ResItems + 1>>]

\* The holder of a Resource calls release() on it, a first time or again.
ReleaseAgain ==
  \E i \in 1..Len(calls.tops) :
    /\ mode \in {"res", "effect", "repeat"}
    /\ Cardinality({j \in 1..Len(log) : log[j].e = "release"})
         < (IF mode = "repeat" THEN MaxAgain ELSE MaxResCalls)
    /\ Commit(Call(Emit(St, Ev("release", calls.tops[i], 0, <<>>)),
                   TRelease(calls.tops[i])))
    /\ calls' = [calls EXCEPT !.released = @ \cup {i}]
    /\ UNCHANGED <<body, mode>>

SpecRes ==
  InitRes
    /\ [][ReleaseAgain \/ Resume \/ LeafDone]_vars

\* The BasicRealm over a source driven from outside, with holders that call release() again on a handle on which
\* release() was called before.
InitRepeat ==
  LET e == [heap |-> <<>>, frames |-> <<>>, jobs |-> <<>>, log |-> <<>>,
            cells |-> <<>>, runs |-> 0, ctx |-> 0,
            exc |-> FALSE, ret |-> 0, stack |-> <<>>]
      s1 == Alloc(e, [NewObj EXCEPT !.kind = "sink"])
      s2 == Call(s1, TInst(Rlm("source"), s1.ret, NoAt))
  IN /\ heap = s2.heap
     /\ frames = s2.frames
     /\ jobs = s2.jobs
     /\ log = s2.log
     /\ cells = s2.cells
     /\ runs = s2.runs
     /\ ambient = s2.ctx
     /\ body = <<>>
     /\ mode = "repeat"
     /\ calls = [NoCalls EXCEPT !.tops = <<s2.ret>>]

SpecRepeat ==
  InitRepeat
    /\ [][SourcePublish \/ ReleaseAgain \/ Resume \/ LeafDone]_vars

\* ------------------------------------------- the ambient Blueprint slot

\* the functions that read the slot: Blueprint.use, Context.useProvider
\* and Context.useConsumer
SlotReaders == 1..3

\* Rlm("throw") is a statement of the body that throws an error of the
\* user.  The bodies: a nested run suspends and a later run throws; every
\* run returns; a nested run throws.
InitAmbient ==
  /\ heap = <<>>
  /\ frames = <<>>
  /\ jobs = <<>>
  /\ log = <<>>
  /\ cells = <<>>
  /\ runs = 0
  /\ ambient = 0
  /\ body \in
       {<<UseIterable, UseAsyncEffect, Rlm("throw")>>,
        <<UseIterable, UseLog>>,
        <<UseIterable, Rlm("throw")>>}
  /\ mode = "ambient"
  /\ calls = NoCalls

\* Blueprint.toRealm(body).instantiate(observer); the caller gets the
\* observation unless the body threw
ObserveBody ==
  /\ mode \in {"ambient", "context", "fork"}
  /\ calls.pubs < (IF mode = "context" THEN MaxCtxObserve ELSE MaxObserve)
  /\ LET s1 == Alloc(St, [NewObj EXCEPT !.kind = "outer",
                                        !.flag = (mode = "ambient")])
         s2 == Call(s1, TInst([Rlm("blueprint") EXCEPT
                                 !.c = IF mode = "ambient" THEN 0 ELSE 1],
                              s1.ret, NoAt))
     IN /\ Commit(s2)
        /\ calls' = [calls EXCEPT
                       !.pubs = @ + 1,
                       !.tops = IF s2.exc THEN @ ELSE Append(@, s2.ret)]
  /\ UNCHANGED <<body, mode>>

\* a caller that is not a Blueprint body calls one of the slot readers
OutsideCall ==
  \E fn \in SlotReaders :
    /\ mode = "ambient"
    /\ calls.sets < MaxOutside
    /\ Commit(GetBlueprintGlobalContext(St, fn, 0))
    /\ calls' = [calls EXCEPT !.sets = @ + 1]
    /\ UNCHANGED <<body, mode>>

SpecAmbient ==
  InitAmbient
    /\ [][ObserveBody \/ OutsideCall \/ MakerResolve \/ ReleaseTop
           \/ Resume \/ LeafDone]_vars

\* -------------------------------------------------- the user context

\* Rlm("provide") is Context.useProvider and Rlm("consume") is
\* Context.useConsumer, of key c.  The bodies: two provides of the same
\* key, one inside the other; a provide that is consumed after the body
\* was suspended.
\* Blueprint.toRealm(body): heap[1] is initialUserCtx, with no entry
InitContext ==
  /\ heap = <<[NewObj EXCEPT !.kind = "userCtx", !.items = <<0>>]>>
  /\ frames = <<>>
  /\ jobs = <<>>
  /\ log = <<>>
  /\ cells = <<>>
  /\ runs = 0
  /\ ambient = 0
  /\ body \in
       {<<[Rlm("provide") EXCEPT !.c = 1], [Rlm("provide") EXCEPT !.c = 1],
          [Rlm("consume") EXCEPT !.c = 1]>>,
        <<[Rlm("provide") EXCEPT !.c = 1], UseAsyncEffect,
          [Rlm("consume") EXCEPT !.c = 1]>>}
  /\ mode = "context"
  /\ calls = NoCalls

SpecContext ==
  InitContext
    /\ [][ObserveBody \/ MakerResolve \/ ReleaseTop \/ Resume]_vars

\* ---------------------------------------------------------- useStore
\* Rlm("useStore") is Blueprint.useStore(child), vals the body of the
\* child.  The child consumes the key, waits for an effect and consumes
\* again.  The parents provide the key before useStore: at once; after a
\* cell and before an effect; and with a second provide after useStore.
ChildBody ==
  <<[Rlm("consume") EXCEPT !.c = 1], UseAsyncEffect,
    [Rlm("consume") EXCEPT !.c = 1]>>

InitFork ==
  /\ heap = <<[NewObj EXCEPT !.kind = "userCtx", !.items = <<0>>]>>
  /\ frames = <<>>
  /\ jobs = <<>>
  /\ log = <<>>
  /\ cells = <<NewCell(0)>>
  /\ runs = 0
  /\ ambient = 0
  /\ body \in
       {<<[Rlm("provide") EXCEPT !.c = 1],
          [Rlm("useStore") EXCEPT !.vals = ChildBody],
          [Rlm("provide") EXCEPT !.c = 1]>>,
        <<UseCell(1), [Rlm("provide") EXCEPT !.c = 1], UseAsyncEffect,
          [Rlm("useStore") EXCEPT !.vals = ChildBody]>>}
  /\ mode = "fork"
  /\ calls = NoCalls

SpecFork ==
  InitFork
    /\ [][ObserveBody \/ CellWrite \/ MakerResolve \/ ReleaseTop \/ Resume]_vars

\* -------------------------------------------------------- Realm.flatMap
\* r.flatMap(f).instantiate(observer), where r is a BasicRealm driven from
\* outside and the observer returns a Resource whose release takes time.
InitFlat ==
  LET e == [heap |-> <<>>, frames |-> <<>>, jobs |-> <<>>, log |-> <<>>,
            cells |-> <<>>, runs |-> 0, ctx |-> 0,
            exc |-> FALSE, ret |-> 0, stack |-> <<>>]
      s1 == Alloc(e, [NewObj EXCEPT !.kind = "sink"])
      s2 == Call(s1, TInst(Rlm("flatMap"), s1.ret, NoAt))
  IN /\ heap = s2.heap
     /\ frames = s2.frames
     /\ jobs = s2.jobs
     /\ log = s2.log
     /\ cells = s2.cells
     /\ runs = s2.runs
     /\ ambient = s2.ctx
     /\ body = <<>>
     /\ mode = "flat"
     /\ calls = NoCalls

\* the observation of r, and the observations of the Realms f(x)
OuterObservation ==
  CHOOSE o \in 1..Len(heap) :
    heap[o].kind = "bobs" /\ heap[heap[o].b].kind = "fmap"

InnerObservations ==
  {o \in 1..Len(heap) :
     /\ heap[o].kind = "bobs"
     /\ heap[o].b = heap[heap[OuterObservation].b].b}

\* a source publishes only as long as its subscription is not released
Subscribed(o) == \A f \in 1..Len(frames) : frames[f].res # heap[o].a

\* r publishes the next outer value; its source keeps the Resource
OuterPublish ==
  /\ mode = "flat"
  /\ calls.pubs < MaxOuter
  /\ Subscribed(OuterObservation)
  /\ LET s1 == Call(St, TInvoke(OuterObservation, calls.pubs + 1, NoAt))
     IN /\ Commit(s1)
        /\ calls' = [calls EXCEPT !.pubs = @ + 1, !.tops = Append(@, s1.ret)]
  /\ UNCHANGED <<body, mode>>

\* some f(x) publishes the next inner value; its source keeps the Resource
InnerPublish ==
  \E o \in InnerObservations :
    /\ calls.sets < MaxInner
    /\ Subscribed(o)
    /\ LET s1 == Call(St, TInvoke(o, 10 + calls.sets, NoAt))
       IN /\ Commit(s1)
          /\ calls' = [calls EXCEPT !.sets = @ + 1,
                                    !.tops = Append(@, s1.ret)]
    /\ UNCHANGED <<body, mode>>

SpecFlat ==
  InitFlat
    /\ [][OuterPublish \/ InnerPublish \/ ReleaseTop \/ Resume \/ LeafDone]_vars

\* ---------------------------------------------------------- EffectRealm

\* The makers: synchronous or asynchronous, registering up to MaxAdds
\* Resources with addResource, whose release takes time or not.
InitEffect ==
  /\ heap = <<>>
  /\ frames = <<>>
  /\ jobs = <<>>
  /\ log = <<>>
  /\ cells = <<>>
  /\ runs = 0
  /\ ambient = 0
  /\ body \in
       {[Rlm(k) EXCEPT !.adds = n, !.slow = sl] :
          k \in {"effSync", "effAsync"}, n \in 0..MaxAdds, sl \in BOOLEAN}
  /\ mode = "effect"
  /\ calls = NoCalls

\* new EffectRealm(maker).instantiate(observer), with an observer that
\* logs the value and returns a Resource whose release takes time.
EffectObserve ==
  /\ mode = "effect"
  /\ calls.tops = <<>>
  /\ LET s1 == Alloc(St, [NewObj EXCEPT !.kind = "sink"])
         s2 == Call(s1, TInst(body, s1.ret, NoAt))
     IN /\ Commit(s2)
        /\ calls' = [calls EXCEPT !.tops = <<s2.ret>>]
  /\ UNCHANGED <<body, mode>>

\* Variant of MakerReject that runs the .then handler all the same.
MakerRejectRunsThen ==
  \E e \in 1..Len(heap) :
    /\ mode = "effect"
    /\ heap[e].kind = "effAsync"
    /\ heap[e].tag = "pending"
    /\ Commit(Run(MakerThen(Emit([St EXCEPT !.heap[e].tag = "rejected"],
                                 Ev("reject", e, 0, <<>>)), e)))
    /\ UNCHANGED <<body, mode, calls>>

\* The promise of an asynchronous maker rejects: the .then handler is
\* skipped and .catch swallows the error.
MakerReject ==
  \E e \in 1..Len(heap) :
    /\ mode = "effect"
    /\ heap[e].kind = "effAsync"
    /\ heap[e].tag = "pending"
    /\ Commit(Emit([St EXCEPT !.heap[e].tag = "rejected"],
                   Ev("reject", e, 0, <<>>)))
    /\ UNCHANGED <<body, mode, calls>>

SpecEffect ==
  InitEffect
    /\ [][EffectObserve \/ MakerResolve \/ MakerReject \/ ReleaseAgain
           \/ Resume \/ LeafDone]_vars

\* ------------------------------------------------------ derived notions
Frames == 1..Len(frames)

Objects == 1..Len(heap)

Events == 1..Len(log)

\* some release() call on r has run to completion
ReleaseCompleted(r) == \E g \in Frames : frames[g].res = r /\ frames[g].done

\* the release of the user Resource r has been started / has finished
LeafStarted(r) == \E j \in Events : log[j].e = "relStart" /\ log[j].r = r

LeafEnded(r) == ReleaseCompleted(r)

\* the Resources a given observer returned
ReturnedBy(ob) == {l \in Objects : heap[l].kind = "leaf" /\ heap[l].b = ob}

\* C2: once release() of a CellRealm observation has resolved, every
\* Resource its observer ever returned (initial value and every later set)
\* has been released.
C2_CellObservationReleasesAll ==
  \A f \in Frames :
    (heap[frames[f].res].kind = "cellInst" /\ frames[f].done)
      => \A l \in ReturnedBy(heap[frames[f].res].b) : LeafEnded(l)

\* event j lies inside a call of CellRealm.set
InSet(j) ==
  \E i \in 1..(j - 1) :
    /\ log[i].e = "setCall"
    /\ \A m \in i..j : log[m].e # "setReturn"

\* number of invocations of observer ob before event j
InvokedBefore(ob, j) ==
  Cardinality({i \in 1..(j - 1) : log[i].e = "value" /\ log[i].r = ob})

\* position of l among the Resources its observer returned
Rank(l) == Cardinality({m \in ReturnedBy(heap[l].b) : m <= l})

NewValueBeforeOldRelease ==
  \A j \in Events :
    (log[j].e = "relStart" /\ heap[log[j].r].tag = "value" /\ InSet(j))
      => InvokedBefore(heap[log[j].r].b, j) > Rank(log[j].r)

SetDoesNotAwait ==
  (calls'.sets # calls.sets)
    => \A f \in (Len(frames) + 1)..Len(frames') :
         heap'[frames'[f].res].tag = "value" => ~frames'[f].done

\* C9: on set(v') with a new value the observer of every instance is
\* invoked with v' before release() of the instance's previous sub-Resource
\* is started, and set returns while that release is still running.
C9_ObserverBeforeOldRelease ==
  [](NewValueBeforeOldRelease) /\ [][SetDoesNotAwait]_vars

C9_Witness ==
  /\ Len(log) > 0
  /\ log[Len(log)].e = "setReturn"
  /\ \E j \in Events :
       /\ log[j].e = "relStart"
       /\ InSet(j)
       /\ ~LeafEnded(log[j].r)
       /\ InvokedBefore(heap[log[j].r].b, j) = 2

\* the calls made on the cell so far, and what the observer logged
CallTrace ==
  LET q == SelectSeq(log, LAMBDA x : x.e \in {"inst", "setCall", "release"})
  IN [i \in 1..Len(q) |-> <<q[i].e, q[i].v>>]

ObserverLog ==
  LET q == SelectSeq(log, LAMBDA x : x.e \in {"value", "relStart"})
  IN [i \in 1..Len(q) |-> <<q[i].e, q[i].v>>]

CounterScenario ==
  /\ mode = "cell"
  /\ CallTrace = << <<"inst", 0>>, <<"setCall", 5>>, <<"setCall", 10>> >>
  /\ Cardinality({j \in Events : log[j].e = "setReturn"}) = 2

\* C10 as stated: observe, set(5), set(10) on a cell holding 0 logs
\* value:0, released:0, value:5, released:5, value:10.
C10_Original ==
  CounterScenario
    => ObserverLog = << <<"value", 0>>, <<"relStart", 0>>, <<"value", 5>>,
                        <<"relStart", 5>>, <<"value", 10>> >>

\* C10 amended: the new value is logged before the release of the old one:
\* value:0, value:5, released:0, value:10, released:5.
C10_CounterLog ==
  CounterScenario
    => ObserverLog = << <<"value", 0>>, <<"value", 5>>, <<"relStart", 0>>,
                        <<"value", 10>>, <<"relStart", 5>> >>

C10_Witness ==
  /\ CounterScenario
  /\ Len(ObserverLog) = 5

\* C1: when release() of a BasicRealm observation resolves, the release of
\* the Resource the observer returned has completed for every value the
\* observer was invoked with.
C1_BasicObservationReleasesAll ==
  \A f \in Frames :
    (heap[frames[f].res].kind = "bobs" /\ frames[f].done)
      => \A l \in ReturnedBy(heap[frames[f].res].b) : LeafEnded(l)

\* ------------------------------------------------------------ Blueprint
UsePoints == {u \in Objects : heap[u].kind = "usept"}

\* the invocations of the observer of use-point u, in order
Calls(u) == SelectSeq(log, LAMBDA x : x.e = "call" /\ x.r = u)

\* the inline continuations and the fresh runs started from use-point u
Conts(u) == SelectSeq(log, LAMBDA x : x.e = "cont" /\ x.r = u)

FreshRuns(u) == SelectSeq(log, LAMBDA x : x.e = "run" /\ x.r = u)

\* the event that started run x
RunStart(x) == log[CHOOSE j \in Events : log[j].e = "run" /\ log[j].v = x]

\* release() of the asynchronous effect observation e was called before
\* its maker resolved
ReleasedBeforeResolve(e) ==
  \E i \in Events :
    /\ log[i].e = "effRelease"
    /\ log[i].r = e
    /\ \A j \in 1..i : ~(log[j].e = "resolve" /\ log[j].r = e)

\* C3: an asynchronous effect observation that is released before its
\* maker resolves never invokes its observer, and the body is never resumed
\* from its use-point.
C3_ReleasedEffectNeverPublishes ==
  \A e \in Objects :
    (heap[e].kind = "effAsync" /\ ReleasedBeforeResolve(e))
      => /\ Calls(heap[e].val) = <<>>
         /\ Conts(heap[e].val) = <<>>
         /\ FreshRuns(heap[e].val) = <<>>

C3_Witness ==
  \E e \in Objects :
    /\ heap[e].kind = "effAsync"
    /\ heap[e].items = <<>>
    /\ ReleasedBeforeResolve(e)
    /\ heap[e].tag = "resolved"

\* what was acquired at use-points after the one of cleanup l in its run
LaterOf(l) ==
  {x \in Objects :
     /\ heap[x].run = heap[l].run
     /\ heap[x].idx > heap[l].idx
     /\ \/ heap[x].kind \in {"leaf", "cellInst", "effAsync", "bobs"}
        \/ heap[x].kind = "seq" /\ heap[x].tag = "effSync"}

\* C4: the cleanup of an effect at an earlier use-point does not start
\* before the release of everything acquired at later use-points of the same
\* run (observations, cleanups, the Resource of the result) has completed.
C4_ReverseOrderRelease ==
  \A l \in Objects :
    (heap[l].kind = "leaf" /\ heap[l].tag = "cleanup" /\ LeafStarted(l))
      => \A x \in LaterOf(l) : ReleaseCompleted(x)

\* the first invocation of the observer of u came during instantiate
FirstSync(u) ==
  \E i \in Events : \E j \in Events :
    /\ i < j
    /\ log[i].e = "call" /\ log[i].r = u
    /\ log[j].e = "used" /\ log[j].r = u

ResumedOncePerCall(u) ==
  LET cs == Calls(u)
      ct == Conts(u)
      rs == FreshRuns(u)
      d == IF FirstSync(u) THEN 1 ELSE 0
  IN /\ Len(ct) = d
     /\ d = 1 => ct[1].h = Append(heap[u].hist, cs[1].v)
     /\ Len(rs) = Len(cs) - d
     /\ \A k \in 1..Len(rs) : rs[k].h = Append(heap[u].hist, cs[k + d].v)
     /\ \A k \in 1..Len(rs) : \A m \in 1..Len(rs) :
          rs[k].v = rs[m].v => k = m

\* C5: every invocation of the observer of a use-point resumes the body
\* exactly once: the first synchronous one inline, every other one by one
\* fresh run whose history is the history of the use-point plus the value.
C5_OneResumptionPerPublication == \A u \in UsePoints : ResumedOncePerCall(u)

C5_Witness ==
  /\ \E u \in UsePoints :
       Len(Calls(u)) = 2 /\ Len(Conts(u)) = 1 /\ Len(FreshRuns(u)) = 1
  /\ \E u \in UsePoints :
       Len(Calls(u)) = 1 /\ ~FirstSync(u) /\ Len(FreshRuns(u)) = 1

\* the use-point a publication of this step comes from: the cell written
\* by set, or the effect whose maker resolved
PublishingIndex ==
  LET first == log'[Len(log) + 1]
  IN IF first.e = "setCall"
     THEN CHOOSE i \in 1..Len(body) :
            body[i].k = "cell" /\ body[i].c = first.r
     ELSE heap[first.r].idx

IsPublication ==
  /\ Len(log') > Len(log)
  /\ log'[Len(log) + 1].e \in {"setCall", "resolve"}

OnlyLaterPartReexecuted ==
  IsPublication
    => /\ \A j \in (Len(log) + 1)..Len(log') :
            log'[j].e \in {"inst", "maker"} => log'[j].r > PublishingIndex
       /\ \A f \in (Len(frames) + 1)..Len(frames') :
            heap'[frames'[f].res].idx # 0
              => heap'[frames'[f].res].idx > PublishingIndex

\* C6: a publication at the k-th use-point instantiates no Realm and runs
\* no effect at a use-point up to k, and releases no Resource acquired at a
\* use-point up to k.
C6_OnlyLaterPartReexecuted == [][OnlyLaterPartReexecuted]_vars

\* what the logging effects of the body printed: use-point and value
EffectLog ==
  LET q == SelectSeq(log, LAMBDA x : x.e = "maker" /\ x.r > 0
                                     /\ body[x.r].k = "effSync")
  IN [i \in 1..Len(q) |-> <<q[i].r, q[i].h[q[i].r - 1]>>]

\* the log of the cancellation scenario: value1:0, value2:100, value1:1,
\* value1:2, value2:100, value2:200
C6_Witness ==
  /\ body = BodyCancel
  /\ EffectLog = << <<2, 0>>, <<5, 100>>, <<2, 1>>, <<2, 2>>, <<5, 100>>,
                    <<5, 200>> >>

\* C7: a run started with a history of length n instantiates Realms and
\* runs makers only at use-points after the n-th, with the history so far
\* extending the initial one, and its result starts with the initial
\* history.
C7_ReplayDoesNotInstantiate ==
  \A j \in Events :
    /\ (log[j].e \in {"inst", "maker"} /\ log[j].v > 0)
         => LET h0 == RunStart(log[j].v).h
            IN /\ log[j].r > Len(h0)
               /\ Len(log[j].h) = log[j].r - 1
               /\ SubSeq(log[j].h, 1, Len(h0)) = h0
    /\ log[j].e = "fire"
         => LET h0 == RunStart(log[j].v).h
            IN /\ Len(log[j].h) = Len(body)
               /\ SubSeq(log[j].h, 1, Len(h0)) = h0

C7_Witness ==
  \E j \in Events :
    /\ log[j].e = "fire"
    /\ Len(RunStart(log[j].v).h) >= 3
    /\ \E i \in Events : log[i].e = "maker" /\ log[i].v = log[j].v

\* the value of cell c when event j was logged
CellValueAt(c, j) ==
  LET prev == {m \in 1..j : log[m].e = "setCall" /\ log[m].r = c}
  IN IF prev = {}
     THEN IF c = 1 THEN 0 ELSE 100
     ELSE log[CHOOSE m \in prev : \A n \in prev : n <= m].v

Changes(j) ==
  /\ log[j].e = "setCall"
  /\ log[j].v # CellValueAt(log[j].r, j - 1)

Firings == {j \in Events : log[j].e = "fire"}

\* C8: the body over two cells fires once for the initial values and once
\* per set that changes a cell, each time with the current values of both
\* cells.
C8_OneFiringPerChange ==
  (body = BodyPair /\ calls.tops # <<>> /\ calls.released = {})
    => /\ Cardinality(Firings) = 1 + Cardinality({j \in Events : Changes(j)})
       /\ \A j \in Firings :
            log[j].h = <<CellValueAt(1, j), CellValueAt(2, j)>>

\* --------------------------------------------------- CellRealm, its life
\* this step is a call of set with the value the cell holds
DuplicateSet ==
  /\ calls'.sets # calls.sets
  /\ log'[Len(log) + 1].e = "setCall"
  /\ log'[Len(log) + 1].v = cells[log'[Len(log) + 1].r].value

SetOfCurrentValueChangesNothing ==
  DuplicateSet
    => /\ heap' = heap
       /\ frames' = frames
       /\ jobs' = jobs
       /\ cells' = cells
       /\ Len(log') = Len(log) + 2

Observers ==
  {ob \in Objects : heap[ob].kind = "sink" /\ Invocations(St, ob) > 0}

\* the event of the first invocation of ob, made by instantiate
InstantiatedAt(ob) ==
  CHOOSE j \in Events :
    /\ log[j].e = "value" /\ log[j].r = ob
    /\ \A i \in 1..(j - 1) : ~(log[i].e = "value" /\ log[i].r = ob)

\* release() was called on the observation of ob, or on the cell
ReleaseRequested(ob) ==
  \/ \E f \in Frames :
       heap[frames[f].res].kind = "cellInst" /\ heap[frames[f].res].b = ob
  \/ \E j \in Events : log[j].e = "cellRelease"

\* C12: every observer is invoked once at instantiation and once per set
\* that changes the value afterwards, also when an observer is
\* instantiated from inside an observer callback during a set.
C12_OneInvocationPerTransition ==
  \A ob \in Observers :
    ~ReleaseRequested(ob)
      => Invocations(St, ob) =
           1 + Cardinality({j \in Events :
                              j > InstantiatedAt(ob) /\ Changes(j)})

\* C13: after release() of the cell has been called no observer is
\* invoked any more.
C13_SetAfterReleaseIsNoOp ==
  \A j \in Events :
    log[j].e = "value"
      => \A i \in 1..j : log[i].e # "cellRelease"

\* the Resources the observers had returned when release() of the cell
\* was called
ReturnedBeforeCellRelease ==
  {l \in Objects :
     /\ heap[l].kind = "leaf"
     /\ heap[l].tag = "value"
     /\ \E j \in Events : log[j].e = "cellRelease" /\ l <= log[j].v}

\* C14: when release() of the cell has resolved, the release of every
\* Resource an observer had returned before the call has completed, and the
\* cell has no instances.
C14_CellReleaseWaitsForAll ==
  \A f \in Frames :
    (heap[frames[f].res].kind = "cellRes" /\ frames[f].done)
      => /\ \A l \in ReturnedBeforeCellRelease : LeafEnded(l)
         /\ cells[heap[frames[f].res].val].instances = <<>>

\* ------------------------------------------------------------- Store
\* the observers that were registered with Store.instantiate
Registered == {ob \in Objects : \E j \in Events :
                 log[j].e = "register" /\ log[j].r = ob}

RegisteredAt(ob) ==
  CHOOSE j \in Events : log[j].e = "register" /\ log[j].r = ob

\* the values that went through Store.create
Published == {log[j].v : j \in {i \in Events : log[i].e = "publish"}}

PublishedAt(x) == CHOOSE j \in Events : log[j].e = "publish" /\ log[j].v = x

\* release() of the Resource of the registration of ob was called before
\* event j
UnregisteredBefore(ob, j) ==
  \E i \in 1..j : log[i].e = "unregister" /\ log[i].r = ob

\* the calls of observer ob with value x
InvokedWith(ob, x) ==
  {j \in Events : log[j].e = "value" /\ log[j].r = ob /\ log[j].v = x}

\* x was live when ob registered, or was published while ob was registered
Owed(ob, x) ==
  \/ \E i \in 1..Len(log[RegisteredAt(ob)].h) :
       log[RegisteredAt(ob)].h[i] = x
  \/ /\ PublishedAt(x) > RegisteredAt(ob)
     /\ ~UnregisteredBefore(ob, PublishedAt(x))

\* C16: an observer registered with Store.instantiate is invoked exactly
\* once for every value that is live when it registers and for every value
\* published while it is registered, and for no other value; registrations
\* and publications made inside an observer callback included.
C16_OncePerValue ==
  \A ob \in Registered :
    \A x \in Published :
      Cardinality(InvokedWith(ob, x)) = IF Owed(ob, x) THEN 1 ELSE 0

\* an observer registered inside a callback saw a live value, and a value
\* was published inside a callback
C16_Witness ==
  \/ \E j \in Events :
       /\ j > 2
       /\ log[j].e = "register" /\ log[j].h # <<>>
       /\ log[j - 2].e = "value"
       /\ InvokedWith(log[j].r, log[j].h[1]) # {}
  \/ \E j \in Events :
       /\ j > 1
       /\ log[j].e = "publish"
       /\ log[j - 1].e = "value"
       /\ InvokedWith(log[j - 1].r, log[j].v) # {}

\* the values of Store.peek() and the registered observers
LiveValues == Range(heap[TheStore].items)

LiveObservers == Range(heap[TheStore].hist)

\* the links of one direction of the map of the Store
LinksA == heap[MapA(St, TheStore)].items

LinksB == heap[MapB(St, TheStore)].items

\* a release that unlinks a value or an observer has not resolved yet
UnlinkInFlight ==
  \E f \in Frames :
    heap[frames[f].res].kind \in {"vinfo", "sreg"} /\ ~frames[f].done

ExactlyThePairs(links) ==
  /\ \A v \in LiveValues : \A ob \in LiveObservers :
       Cardinality({i \in 1..Len(links) :
                      links[i][1] = v /\ links[i][2] = ob}) = 1
  /\ \A i \in 1..Len(links) :
       links[i][1] \in LiveValues /\ links[i][2] \in LiveObservers

RegistrationOf(ob) ==
  {r \in Objects : heap[r].kind = "sreg" /\ heap[r].b = ob}

Unregistered(ob) == UnregisteredBefore(ob, Len(log))

\* the ValueInfo of a value is still in this.values
LiveValue(x) == \E v \in LiveValues : heap[v].val = x

StoreReleaseCalled == \E j \in Events : log[j].e = "storeRelease"

\* after release() of its registration was called, ob is not called for a
\* value published later
NotInvokedAfterwards(ob) ==
  \A j \in Events :
    (log[j].e = "value" /\ log[j].r = ob /\ UnregisteredBefore(ob, j))
      => ~UnregisteredBefore(ob, PublishedAt(log[j].v))

\* when release() of the registration has resolved, what ob returned for
\* the live values has been released
LinksReleasedAtResolve(ob) ==
  (\E r \in RegistrationOf(ob) : ReleaseCompleted(r))
    => \A l \in ReturnedBy(ob) : LiveValue(heap[l].val) => LeafEnded(l)

\* the links of an observer are released or removed only for a reason of
\* their own
OthersUntouched(ob) ==
  /\ \A l \in ReturnedBy(ob) :
       LeafStarted(l)
         => Unregistered(ob) \/ ~LiveValue(heap[l].val) \/ StoreReleaseCalled
  /\ (ob \in LiveObservers /\ ~StoreReleaseCalled)
       => \A v \in LiveValues :
            /\ \E i \in 1..Len(LinksA) :
                 LinksA[i][1] = v /\ LinksA[i][2] = ob
            /\ \E i \in 1..Len(LinksB) :
                 LinksB[i][1] = v /\ LinksB[i][2] = ob

\* C18: after release() of a registration was called its observer is not
\* called for later values; when that release resolves, every Resource the
\* observer returned for a live value has been released; the links of the
\* other observers are neither released nor removed by it.
C18_RegistrationRelease ==
  \A ob \in Registered :
    /\ NotInvokedAfterwards(ob)
    /\ LinksReleasedAtResolve(ob)
    /\ OthersUntouched(ob)

\* the Resource the source was handed for the publication of x
HandleOf(x) ==
  {w \in Objects :
     /\ heap[w].kind = "bchild"
     /\ heap[heap[w].a].kind = "vinfo"
     /\ heap[heap[w].a].val = x}

ReleaseCalled(r) == \E f \in Frames : frames[f].res = r

\* how often Store.peek() holds x
PeekCount(x) ==
  Cardinality({i \in 1..Len(heap[TheStore].items) :
                 heap[heap[TheStore].items[i]].val = x})

\* peek() holds one entry for a published value whose Resource was not
\* released, and none for one whose Resource was released
PeekIsLiveSet ==
  \A x \in Published :
    /\ (\A w \in HandleOf(x) : ~ReleaseCalled(w)) => PeekCount(x) = 1
    /\ (\E w \in HandleOf(x) : ReleaseCompleted(w)) => PeekCount(x) = 0
    /\ PeekCount(x) <= 1

\* the call of Store.release() that found the Store not released
FirstStoreRelease ==
  {f \in Frames :
     /\ frames[f].res = TheStore
     /\ \A g \in 1..(f - 1) : frames[g].res # TheStore}

\* C19: Store.peek() holds exactly the published values whose Resource
\* has not been released, one entry per publication; once Store.release()
\* has resolved the live set is empty and stays empty.
C19_PeekAndRelease ==
  /\ PeekIsLiveSet
  /\ \A f \in FirstStoreRelease :
       frames[f].done => heap[TheStore].items = <<>>

\* this step is a call of Store.release() on a Store that is released
LaterStoreRelease ==
  /\ heap[TheStore].flag
  /\ Len(frames') > Len(frames)
  /\ frames'[Len(frames) + 1].res = TheStore

\* release() calls on the source observation of the Store
SourceReleases == {f \in Frames : frames[f].res = heap[TheStore].a}

StoreReleasedOnce ==
  /\ Cardinality(SourceReleases') <= 1
  /\ LaterStoreRelease
       => /\ heap' = heap
          /\ jobs' = jobs
          /\ Len(frames') = Len(frames) + 1
          /\ frames'[Len(frames')].done
          /\ \A f \in Frames : frames'[f] = frames[f]

\* C20: however often Store.release() is called, the source observation is
\* released once, and a call that finds the Store released returns
\* without releasing anything.
C20_ReleaseIsIdempotent == [][StoreReleasedOnce]_vars

\* release() was called twice on a Store that had links, and both calls
\* have resolved
C20_Witness ==
  /\ Cardinality({f \in Frames : frames[f].res = TheStore /\ frames[f].done})
       = 2
  /\ \E l \in Objects :
       heap[l].kind = "leaf" /\ heap[l].tag = "value" /\ LeafEnded(l)
  /\ SourceReleases # {}

\* --------------------------------------------- the Store of newCellRealm
\* the release of value y and of everything the observers returned for it
\* has completed
ValueGone(y) ==
  /\ \A v \in Objects :
       (heap[v].kind = "vinfo" /\ heap[v].val = y) => ReleaseCompleted(v)
  /\ \A l \in Objects :
       (heap[l].kind = "leaf" /\ heap[l].tag = "value" /\ heap[l].val = y)
         => LeafEnded(l)

\* C15: the Store of newCellRealm holds at most one live value, and no
\* observer is called with a value before the release of the value
\* published before it, the Resources of all observers for it included,
\* has completed.
C15_OneLiveValue ==
  /\ Len(heap[TheStore].items) <= 1
  /\ \A j \in Events :
       log[j].e = "value"
         => \A y \in Published :
              PublishedAt(y) < PublishedAt(log[j].v) => ValueGone(y)

\* ------------------------------------------- the Resource combinators
\* the combined Resource of SpecRes and its kind
Combined == calls.tops[1]

CombinedIs(k) == mode = "res" /\ heap[Combined].kind = k

\* the release() call of frame h has completed
Completed(h) == frames[h].done /\ frames[h].err = NoError

Failed(h) == frames[h].done /\ frames[h].err # NoError

\* the release() calls made on Resource r
ReleasesOf(r) == {h \in 1..Len(frames) : frames[h].res = r}

\* C24: Releasable.sequential([r1, .., rn]).release() calls the release()
\* of an item only after the release() of the item before it has
\* completed, and its own promise resolves only after the release() of
\* every item has completed.
C24_SequentialInOrder ==
  CombinedIs("seq") =>
    /\ \A g \in 1..Len(frames) :
         frames[g].res \in 2..ResItems =>
           \E h \in 1..(g - 1) :
             frames[h].res = frames[g].res - 1 /\ Completed(h)
    /\ \A f \in ReleasesOf(Combined) :
         Completed(f) =>
           \A i \in 1..ResItems :
             \E h \in ReleasesOf(i) : h > f /\ Completed(h)

C24_Witness ==
  /\ CombinedIs("seq")
  /\ \A i \in 1..ResItems : body[i].slow
  /\ \E f \in ReleasesOf(Combined) : Completed(f)

\* C25: Releasable.parallel(items).release() invokes release() on every
\* item, also when the release() of some item fails, and settles only
\* after the release() of every item has settled.
C25_ParallelReleasesAll ==
  CombinedIs("par") =>
    \A f \in ReleasesOf(Combined) :
      \A i \in 1..ResItems :
        /\ f + i \in ReleasesOf(i)
        /\ frames[f].done => frames[f + i].done

C25_Witness ==
  /\ CombinedIs("par")
  /\ body[1].throws
  /\ body[ResItems].slow
  /\ \E f \in ReleasesOf(Combined) : frames[f].done /\ Failed(f + 1)

\* C26: when the release() of at least one item fails, the promise of
\* Releasable.parallel(items).release() is rejected.
C26_ParallelFails ==
  CombinedIs("par") =>
    \A f \in ReleasesOf(Combined) :
      frames[f].done /\ (\E i \in 1..ResItems : Failed(f + i)) => Failed(f)

\* C23: a second release() on a Resource of the core does not call the
\* release() of an underlying child a second time.
C23_ChildrenReleasedOnce ==
  mode = "res" => \A i \in 1..ResItems : Cardinality(ReleasesOf(i)) <= 1

\* ------------------------------------------ Store.release and failures
\* the calls of bindings.unlinkAll()
UnlinkAlls == {g \in Frames : heap[frames[g].res].kind = "map"}

\* this step is the first Store.release(): it calls release() on the
\* source observation, bindings.unlinkAll(), and release() on every link
FirstReleaseAttemptsAll ==
  ~heap[TheStore].flag /\ heap'[TheStore].flag =>
    LET new == (Len(frames) + 1)..Len(frames')
        links == heap[MapA(St, TheStore)].items
    IN /\ \E g \in new : frames'[g].res = heap[TheStore].a
       /\ \E g \in new : heap[frames'[g].res].kind = "map"
       /\ \A i \in 1..Len(links) : \E h \in new : frames'[h].res = links[i][3]

\* the error of a Store.release() that has settled
ReleaseErrorIsTheirs ==
  \A f \in FirstStoreRelease :
    frames[f].done =>
      LET a == frames[CHOOSE g \in SourceReleases : TRUE].err
          u == frames[CHOOSE g \in UnlinkAlls : TRUE].err
      IN /\ u # NoError =>
              \E h \in Frames : /\ heap[frames[h].res].tag = "value"
                                /\ frames[h].err = u
         /\ frames[f].err =
              CASE a = NoError /\ u = NoError -> NoError
                [] a # NoError /\ u = NoError -> a
                [] a = NoError /\ u # NoError -> u
                [] OTHER -> <<[id |-> 0, errors |-> <<a[1], u[1]>>]>>

\* C21: Store.release() attempts the release of the source observation
\* and the release of every link even when one of the two fails; when
\* exactly one of the two fails its error is the error of Store.release(),
\* when both fail the error is an aggregate of the two.
C21_ReleaseReportsFailures ==
  [][FirstReleaseAttemptsAll /\ ReleaseErrorIsTheirs']_vars

\* Store.release() has failed with the aggregate of two errors
C21_Witness ==
  \E f \in FirstStoreRelease :
    /\ Failed(f)
    /\ frames[f].err[1].id = 0
    /\ Len(frames[f].err[1].errors) = 2

\* ---------------------------------------------------- newPortalRealm
\* the Resources returned by setter(v).instantiate(observer)
Instantiations ==
  {o \in Objects : heap[o].kind = "bobs" /\ heap[heap[o].b].kind = "client"}

\* the entry of the live set that instantiation o added
EntryIn(h, o) == h[h[h[o].a].items[2]].a

EntryOf(o) == EntryIn(heap, o)

\* the entry e belongs to an instantiation on which release() was called
OwnerReleased(e) ==
  \E o \in Instantiations : EntryOf(o) = e /\ ReleaseCalled(o)

\* a step that instantiates setter(v) adds one entry, of value v, at the
\* end of the live set, and calls every registered observer once with v
AddsOneEntry ==
  calls'.pubs # calls.pubs =>
    LET o == calls'.tops[Len(calls'.tops)]
        new == (Len(log) + 1)..Len(log')
    IN /\ heap'[TheStore].items = Append(heap[TheStore].items, EntryIn(heap',
            o))
       /\ heap'[EntryIn(heap', o)].val = heap'[heap'[o].b].val
       /\ \A ob \in Range(heap[TheStore].hist) :
            Cardinality({j \in new : log'[j].e = "value" /\ log'[j].r = ob})
              = 1
       /\ \A j \in new :
            log'[j].e = "value" =>
              /\ log'[j].v = heap'[heap'[o].b].val
              /\ log'[j].r \in Range(heap[TheStore].hist)

\* any other step removes only entries of instantiations on which
\* release() was called, and starts the release of a per-observer
\* Resource only for such an entry or for an unregistered observer
OthersUnaffected ==
  /\ calls'.pubs = calls.pubs =>
       /\ Range(heap'[TheStore].items) \subseteq Range(heap[TheStore].items)
       /\ \A e \in Range(heap[TheStore].items) :
            e \notin Range(heap'[TheStore].items) => OwnerReleased(e)'
  /\ \A f \in (Len(frames) + 1)..Len(frames') :
       \A l \in Range(LinksA) \cup Range(LinksB) :
         frames'[f].res = l[3] => OwnerReleased(l[1])' \/ Unregistered(l[2])'
  /\ \A l \in Range(LinksA) \ Range(LinksA') :
       ReleaseCompleted(l[3])' \/ Unregistered(l[2])'

\* once release() of an instantiation has resolved, its entry is gone
\* and so are the links of its entry, except that the link to an
\* observer that unregistered may still be in the course of its release
EntryRemoved ==
  \A o \in Instantiations :
    ReleaseCompleted(o) =>
      /\ EntryOf(o) \notin Range(heap[TheStore].items)
      /\ \A l \in Range(LinksA) \cup Range(LinksB) :
           l[1] = EntryOf(o) => Unregistered(l[2]) /\ ReleaseCalled(l[3])

ObserverResources == {l \in Objects : heap[l].tag = "value"}

AbortCalls == {a \in Frames : heap[frames[a].res].kind = "abort"}

AddedResources == {l \in Objects : heap[l].tag = "cleanup"}

\* some release() of l completed before the call of frame g
CompletedBefore(l, g) ==
  \E h \in 1..(g - 1) : frames[h].res = l /\ Completed(h)

\* C27: releasing an EffectRealm observation that has published a value
\* completes the release of the observer's Resource before the abort
\* signal is triggered, triggers the abort signal before it releases the
\* Resources registered with addResource, and releases those in the
\* reverse order of their registration.
C27_EffectReleaseOrder ==
  mode = "effect" =>
    /\ \A a \in AbortCalls :
         \A l \in ObserverResources : CompletedBefore(l, a)
    /\ \A c \in Frames :
         frames[c].res \in AddedResources =>
           /\ \E a \in AbortCalls : a < c
           /\ \A l \in AddedResources :
                heap[l].val > heap[frames[c].res].val => CompletedBefore(l, c)
    /\ \A f \in ReleasesOf(Combined) :
         Completed(f) => \A l \in AddedResources : CompletedBefore(l, Len(frames) + 1)

C27_Witness ==
  /\ mode = "effect"
  /\ body.k = "effAsync"
  /\ body.slow
  /\ Cardinality(AddedResources) = MaxAdds
  /\ ObserverResources # {}
  /\ \E f \in ReleasesOf(Combined) : Completed(f)

\* the promise of the maker was rejected
MakerRejected == \E j \in Events : log[j].e = "reject"

\* C28: when the promise of the maker of an EffectRealm rejects, the
\* observer is never invoked, no error reaches the caller of instantiate
\* or of release(), and a later release() still triggers the abort signal
\* and releases every Resource registered with addResource.
C28_MakerRejection ==
  mode = "effect" /\ MakerRejected =>
    /\ \A j \in Events : log[j].e # "value"
    /\ \A f \in Frames : frames[f].err = NoError
    /\ \A f \in ReleasesOf(Combined) :
         /\ \E a \in AbortCalls : a > f
         /\ frames[f].done =>
              \A l \in AddedResources : CompletedBefore(l, Len(frames) + 1)

C28_Witness ==
  /\ mode = "effect"
  /\ MakerRejected
  /\ Cardinality(AddedResources) = MaxAdds
  /\ \E f \in ReleasesOf(Combined) : Completed(f)
  /\ \E i, j \in Events :
       log[j].e = "reject" /\ log[i].e = "release" /\ j < i

\* ---------------------------------------------------------------- C29
\* the Resources r's source was handed for its outer values
OuterHandles ==
  {w \in Objects :
     heap[w].kind = "bchild" /\ heap[w].b = OuterObservation}

\* the inner observation of f(x), for the Resource w of the outer value x
InnerOf(w) == heap[w].a

\* the Resources the source of f(x) was handed for its values
InnerHandles(w) ==
  {i \in Objects : heap[i].kind = "bchild" /\ heap[i].b = InnerOf(w)}

\* the Resource the downstream observer returned for the value of handle i
DownstreamOf(i) == heap[heap[i].a].a

\* the caller itself has called release() on r
SourceReleased(r) ==
  \E j \in Events : log[j].e = "release" /\ log[j].r = r

\* once release() on the Resource of x has resolved, the inner observation
\* and every downstream Resource of f(x) has completed its release
OuterReleaseCovers ==
  \A w \in OuterHandles :
    (\E h \in ReleasesOf(w) : Completed(h)) =>
      /\ ReleaseCompleted(InnerOf(w))
      /\ \A i \in InnerHandles(w) : ReleaseCompleted(DownstreamOf(i))

\* what belongs to x is released only for the Resource of x, or, for a
\* single inner value, for the Resource the source of f(x) holds for it
OthersUntouched29 ==
  \A w \in OuterHandles :
    /\ ReleaseCalled(InnerOf(w)) \/ ReleaseCalled(heap[InnerOf(w)].a)
         => SourceReleased(w)
    /\ \A i \in InnerHandles(w) :
         \/ ReleaseCalled(i) \/ ReleaseCalled(heap[i].a)
         \/ ReleaseCalled(DownstreamOf(i))
         => SourceReleased(w) \/ SourceReleased(i)

\* C29: for r.flatMap(f), releasing the Resource of an outer value x
\* releases the inner observation of f(x) and every Resource the downstream
\* observer returned for values published by f(x), and releases nothing
\* that belongs to another outer value.
C29_FlatMapRelease == OuterReleaseCovers /\ OthersUntouched29

\* ---------------------------------------------------------------- C30
\* the errors of getBlueprintGlobalContext, by the run that made the call
\* (0: a caller that is no Blueprint body)
NoContextErrors(run) ==
  {j \in Events : log[j].e = "threw" /\ log[j].r \in SlotReaders
                     /\ log[j].v = run}

\* the body runs started so far
BodyRuns == {log[j].v : j \in {i \in Events : log[i].e = "run"}}

\* every call of a slot reader outside a body has thrown
OutsideCallsThrow == Cardinality(NoContextErrors(0)) = calls.sets

\* inside a body run no slot reader throws, and every use call finds in
\* the slot the context of the run that makes the call
SlotIsTheRun ==
  /\ \A r \in BodyRuns : NoContextErrors(r) = {}
  /\ \A u \in UsePoints : heap[u].ctx = heap[u].run

\* C30: Blueprint.use, Context.useProvider and Context.useConsumer throw
\* whenever no Blueprint body is executing; the ambient slot is set only
\* for the duration of a body run and is restored to its previous value
\* when the run ends by return, by suspension or by a user exception, also
\* for nested runs.
C30_AmbientSlot ==
  /\ ambient = 0
  /\ OutsideCallsThrow
  /\ SlotIsTheRun

\* a nested run has ended by suspension and the run around it has made
\* its next use call, a later run has ended by an error of the user, and a
\* slot reader has been called outside
C30_Witness ==
  /\ calls.sets > 0
  /\ \E u, w \in UsePoints :
       /\ heap[u].run > heap[w].run
       /\ heap[u].idx = heap[w].idx
       /\ u < w
  /\ \E j \in Events : log[j].e = "threw" /\ log[j].r = 0

\* ---------------------------------------------------------------- C31
\* the user-context map of the root Realm
UserCtx == heap[1].items

\* the observations created by useProvider: their restoring Resources
Provides == {l \in Objects : heap[l].kind = "leaf" /\ heap[l].tag = "restore"}

\* the value the map held for the key immediately before provide l
HeldBefore(l) ==
  LET j == CHOOSE i \in Events : log[i].e = "provide" /\ log[i].r = l
  IN log[j].h[2]

\* the release of provide l runs in this step
ProvideReleased(l) == ~ReleaseCalled(l) /\ ReleaseCalled(l)'

\* C31: after the observation created by Context.useProvider(value) for
\* key K has been released, the user-context map holds for K the value it
\* held immediately before the provide, or no entry (0) if K was absent,
\* for any nesting of provides of the same key and across every
\* observation sharing the map.
C31_ProvideRestores ==
  [][\A l \in Provides :
       ProvideReleased(l) => UserCtx'[heap[l].b] = HeldBefore(l)]_vars

\* a provide made inside another provide of the same key has been released
\* and has put back the value of the outer provide, and a provide of
\* another observation sharing the map has been released
C31_Witness ==
  /\ \E l \in Provides :
       ReleaseCalled(l) /\ HeldBefore(l) # 0 /\ UserCtx[heap[l].b] # 0
  /\ \E l, m \in Provides :
       /\ heap[l].run # heap[m].run
       /\ ReleaseCalled(l)
       /\ ReleaseCalled(m)

\* ---------------------------------------------------------------- C32
\* the run whose use-point started run r (r itself for the first run of an
\* observation), and the first run of the observation of r
StartedBy(r) ==
  LET j == CHOOSE i \in Events : log[i].e = "run" /\ log[i].v = r
  IN IF log[j].r = 0 THEN r ELSE heap[log[j].r].run

ObservationOf(r) == StartedBy(StartedBy(StartedBy(r)))

\* the run that provided the value x
ProvidedBy(x) == x \div 10

\* C32: two concurrent observations of the same Realm returned by
\* Blueprint.toRealm share no observation state: useConsumer returns in an
\* observation only a value provided in that observation, and does not
\* fail for a provide or a restore of the other observation.
C32_NoSharedContext ==
  \A j \in Events :
    /\ log[j].e = "consume" =>
         ObservationOf(ProvidedBy(log[j].v)) = ObservationOf(log[j].r)
    /\ ~(log[j].e = "threw" /\ log[j].r = 3)

\* ---------------------------------------------------------------- C33
\* the runs that run r continues, r included
Lineage(r) ==
  {r, StartedBy(r), StartedBy(StartedBy(r)), ObservationOf(r)}

\* the provide of the key that the parent run p made last before it
\* called useStore: its restoring Resource and the value A it provided
ScopeOf(p, key) ==
  CHOOSE l \in Provides :
    /\ heap[l].b = key
    /\ heap[l].run \in Lineage(p)
    /\ \A m \in Provides :
         heap[m].b = key /\ heap[m].run \in Lineage(p)
           => heap[m].run <= heap[l].run

ProvidedValue(l) ==
  LET j == CHOOSE i \in Events : log[i].e = "provide" /\ log[i].r = l
  IN log[j].v

\* event j is a useConsumer of a child made by useStore whose parent scope
\* has not been released, and it returns the value of that scope
ChildConsumes(j) ==
  LET e == log[j]
      child == Len(e.h) = 2 /\ e.h[2] # 1
      scope == ScopeOf(heap[e.h[2]].run, e.h[1])
  IN (e.e = "consume" \/ (e.e = "threw" /\ e.r = 3)) /\ child
       /\ ~ReleaseCalled(scope)
     => e.e = "consume" /\ e.v = ProvidedValue(scope)

\* C33: a child Blueprint created with useStore after the parent body
\* called useProvider(K = A) gets A from useConsumer(K), on its first run
\* and on every later re-execution, for as long as the parent scope that
\* provided K = A has not been released.
C33_ForkInheritsContext ==
  [][\A j \in (Len(log) + 1)..Len(log') : ChildConsumes(j)']_vars


\* ---------------------------------------------------------------- C34
\* the runs of the rest of the body (the maker of its effect) and the
\* values published to the outer observer, for the element at the head of
\* their history
RestEvents == {j \in Events : log[j].e \in {"maker", "fire"}}

\* C34: for a body x = useIterable(seq); rest(x), the rest of the body
\* runs exactly once per element of seq and in the order of seq, so its
\* effects and the values published to the outer observer appear in
\* sequence order.
C34_IterableOrder ==
  body = <<UseIterable, UseLog>> =>
    \A j, k \in RestEvents :
      j < k /\ log[j].e = log[k].e => log[j].h[1] < log[k].h[1]


\* ---------------------------------------------------------------- C35
\* how often release() of Resource r, returned by the downstream observer,
\* was invoked
ReleaseInvocations(r) ==
  Cardinality({j \in Events : log[j].e = "relStart" /\ log[j].r = r})

\* C35: for each value published through a BasicRealm observation,
\* release() of the Resource the downstream observer returned for it is
\* invoked at most once, however many times and from however many paths
\* the child-release handle is called, concurrently or after an earlier
\* call has completed.
C35_ChildReleasedOnce ==
  \A w \in Objects :
    heap[w].kind = "bchild" => ReleaseInvocations(heap[w].a) <= 1


\* ---------------------------------------------------------------- C36
\* the child Resources that Store.release() found in the bidirectional
\* map: those whose release() was invoked in or after the call
ReleasedByStore ==
  {l \in Objects :
     \E j \in Events :
       /\ log[j].e = "relStart" /\ log[j].r = l
       /\ \E i \in 1..j : log[i].e = "storeRelease"}

\* C36: during Store.release(), release() of each per-(value, observer)
\* child Resource held in the bidirectional map is invoked exactly once,
\* although the source's release of each value (unlinkAllA) and the
\* map-wide unlinkAll run in parallel.
C36_LinksReleasedOnce ==
  \A l \in ReleasedByStore : ReleaseInvocations(l) = 1


\* ---------------------------------------------------------------- C37
\* the queue of newCellRealm holds no task and runs none
QueueIdle == heap[TheQueue].items = <<>> /\ heap[TheQueue].tag # "running"

\* currentValue of newCellRealm
CurrentValue == heap[heap[TheQueue].b].val

\* C37: function updates passed to the setter of newCellRealm are applied
\* one after another to the then-current value: after k calls with
\* prev => prev + 1 and once the queue is idle the value is v0 + k, also
\* when several are submitted while an earlier one is processed.
C37_FunctionUpdatesCompose ==
  (mode = "cfn" /\ QueueIdle) => CurrentValue = InitialValue + calls.pubs


\* ---------------------------------------------------------------- C38
\* the Resources passed to link, and the Resource each index holds for
\* the pair (1, 1)
Linked == {l \in Objects : heap[l].kind = "leaf" /\ heap[l].tag = "value"}

HeldIn(m) == {heap[m].items[i][3] : i \in 1..Len(heap[m].items)}

\* no call on the map is in flight
MapQuiet == \A f \in Frames : frames[f].done

\* C38: link(a, b, r2) on a pair that holds r1 releases r1 exactly once;
\* when the calls have resolved both indices hold the same Resource, and
\* no Resource passed to link has left the map without release() invoked
\* on it, also when unlink or unlinkAll runs while link waits.
C38_LinkReplaces ==
  /\ \A l \in Linked : ReleaseInvocations(l) <= 1
  /\ MapQuiet =>
       /\ HeldIn(2) = HeldIn(3)
       /\ \A l \in Linked : l \notin HeldIn(2) => ReleaseInvocations(l) = 1


\* ---------------------------------------------------------------- C39
\* the handler calls that have not returned
HandlersInFlight ==
  {f \in Frames : heap[frames[f].res].kind = "tqTask" /\ ~frames[f].done}

\* the log index at which the handler was called for task n (0: never),
\* tasks being numbered in the order of enqueue
HandledAt(n) ==
  IF \E j \in Events : log[j].e = "handle" /\ log[j].v = n
  THEN CHOOSE j \in Events : log[j].e = "handle" /\ log[j].v = n
  ELSE 0

\* the promise that enqueue returned for task n
PromiseOf(n) ==
  LET e == CHOOSE x \in Objects : heap[x].kind = "enq" /\ heap[x].val = n
  IN frames[heap[e].a]

Tasks == {n \in 1..MaxEnqueue : \E j \in Events :
                                  log[j].e = "enqueue" /\ log[j].v = n}

\* C39: a TaskQueue runs its handler for at most one task at a time and in
\* enqueue order, including tasks enqueued before launch and while a
\* handler runs: the handler is called once per task, and when it is
\* called for a task, it has been called before for every earlier task
\* that stop() did not reject.
C39_OneAtATimeInOrder ==
  /\ Cardinality(HandlersInFlight) <= 1
  /\ \A n \in Tasks :
       /\ Cardinality({j \in Events : log[j].e = "handle" /\ log[j].v = n})
            <= 1
       /\ HandledAt(n) # 0 =>
            \A k \in 1..(n - 1) :
              \/ HandledAt(k) # 0 /\ HandledAt(k) < HandledAt(n)
              \/ PromiseOf(k).err = Stopped

\* task 1 was enqueued before launch, tasks 2 and 3 while the handler ran
\* for task 1, and the handlers of 1 and 2 have returned before the one
\* of 3 was called
C39_Witness ==
  /\ Tasks = 1..3
  /\ \E j \in Events :
       log[j].e = "enqueue" /\ log[j].v = 1 /\ log[j].h = <<0>>
  /\ \E i, j, k \in Events :
       /\ i < j /\ j < k /\ k < HandledAt(2)
       /\ log[i].e = "handle" /\ log[i].v = 1
       /\ log[j].e = "enqueue" /\ log[j].v = 2
       /\ log[k].e = "enqueue" /\ log[k].v = 3
  /\ HandledAt(3) # 0
  /\ PromiseOf(1).done /\ PromiseOf(2).done


\* ---------------------------------------------------------------- C40
\* task n was enqueued while the queue was launched
EnqueuedLaunched(n) ==
  \E j \in Events : log[j].e = "enqueue" /\ log[j].v = n /\ log[j].h = <<1>>

\* the promise that enqueue returned for task n has settled
Settled(n) == n \in Tasks /\ PromiseOf(n).done

====
